---- MODULE Spec2Model ----
(***************************************************************************)
(* Model of the RexLapisLib execution core (src/RexLapisLib/core/manager.py):*)
(* the PositionExecutor state machine and the TradeManager polling tick,   *)
(* and of the backtest side (core/context.py, core/backtester.py): the     *)
(* BacktestContext fill simulator and the BacktestEngine bar loop.         *)
(*                                                                         *)
(* Prices, quantities and offsets are integers (ticks); order identifiers  *)
(* are positive integers and None is 0.                                    *)
(***************************************************************************)
EXTENDS Integers, Sequences, FiniteSets, TLC

(***************************************************************************)
(* Bounds of the model.                                                    *)
(***************************************************************************)
\* number of order identifiers the exchange hands out in one run
MaxOrders == 3
\* size of the TradeManager's executor list
MaxExecutors == 2

(***************************************************************************)
(* Value sets the inputs are drawn from.                                   *)
(***************************************************************************)
None == 0
OrderIds == 1..MaxOrders
\* an order of the same account that no executor of the model placed
ForeignId == MaxOrders + 1
Prices == 1..4
AvgPrices == {1, 4}
TargetEntries == {2}
TargetExits == {3}
Qtys == {2}
Offsets == {0, 1}

\* ExecutorState (models/states.py)
PENDING_ENTRY == "PENDING_ENTRY"
PLACED_ENTRY == "PLACED_ENTRY"
FILLED_WAIT == "FILLED_WAIT"
PLACED_EXIT == "PLACED_EXIT"
COMPLETED == "COMPLETED"
ExecutorState == {PENDING_ENTRY, PLACED_ENTRY, FILLED_WAIT, PLACED_EXIT, COMPLETED}

\* orderStatus values of the order history; the last one stands for every
\* status the executor has no branch for
Statuses == {"Filled", "Cancelled", "Rejected", "Deactivated", "PartiallyFilledCanceled"}
CancelStatuses == {"Cancelled", "Rejected", "Deactivated"}

\* a record of get_order_history, reduced to the keys execute_cycle reads
HistoryRecords ==
    [status : {"Filled"}, avg_price : AvgPrices]
    \cup [status : {"PartiallyFilledCanceled"}, avg_price : {1}]
    \cup [status : CancelStatuses, avg_price : {0}]
\* the records of an order no executor placed
ForeignRecords == {[status |-> "Filled", avg_price |-> 4],
                   [status |-> "Cancelled", avg_price |-> 0]}
\* what dict.get returns for an id the map does not hold
NoRecord == [status |-> "None", avg_price |-> 0]

\* order_history_map.get(order_id)
HistoryGet(order_history_map, order_id) ==
    IF order_id \in DOMAIN order_history_map
    THEN order_history_map[order_id]
    ELSE NoRecord

\* the history maps over a set of ids: every id is absent or has one record
HistoryMaps(ids) ==
    UNION {{h \in [D -> HistoryRecords \cup ForeignRecords] :
              \A id \in D : id = ForeignId => h[id] \in ForeignRecords}
           : D \in SUBSET ids}

(***************************************************************************)
(* The exchange's answer to place_limit_order: an order id, or an          *)
(* exception whose message does or does not name a reduce-only rejection.  *)
(***************************************************************************)
RespOk(id) ==
    [kind |-> "ok", order_id |-> id, has_110017 |-> FALSE, has_reduceOnly |-> FALSE]
\* an exception; the two flags say whether str(e) contains "110017" and
\* whether it contains "reduceOnly"
RespRaise(has_110017, has_reduceOnly) ==
    [kind |-> "raise", order_id |-> None,
     has_110017 |-> has_110017, has_reduceOnly |-> has_reduceOnly]
RespErrors == {RespRaise(a, b) : a, b \in BOOLEAN}
\* no submission was made in the cycle
NoCall == [kind |-> "none", order_id |-> None,
           has_110017 |-> FALSE, has_reduceOnly |-> FALSE]

VARIABLES
    ex,         \* a PositionExecutor driven directly through execute_cycle
    nextId,     \* the next order id the exchange will hand out
    last,       \* the last execute_cycle call on ex: what it read and did
    manager,    \* the TradeManager's maker offsets
    executors,  \* TradeManager.executors
    tick,       \* the process_tick call that has just returned, if one has
    file,       \* the content of the manager's state file
    pc,         \* where the bot's process is: setting up, or in its main loop
    io,         \* the last persistence call: what it found, did and returned
    ctx,        \* a BacktestContext
    sim,        \* the last call on ctx: its arguments, the context before it
                \* and what it returned
    bt,         \* a BacktestEngine.run: the candles, the loop index and what
                \* the decision logic was shown
    legacy      \* the TradeManager of src/manager.py: its client, its
                \* executors and the last call on it

vars == <<ex, nextId, last, manager, executors, tick, file, pc, io, ctx, sim, bt, legacy>>
simVars == <<ctx, sim, bt>>
execVars == <<ex, last>>
managerVars == <<manager, executors, tick>>
persistVars == <<file, pc, io>>

(***************************************************************************)
(* PositionExecutor.__init__                                               *)
(***************************************************************************)
NewExecutor(target_entry, target_exit, qty, maker_offset_buy, maker_offset_sell, loop_trade) ==
    [target_entry |-> target_entry,
     target_exit |-> target_exit,
     qty |-> qty,
     maker_offset_buy |-> maker_offset_buy,
     maker_offset_sell |-> maker_offset_sell,
     loop_trade |-> loop_trade,
     state |-> PENDING_ENTRY,
     active_order_id |-> None,
     entry_fill_price |-> 0,
     exit_fill_price |-> 0]

\* a call of client.place_limit_order, with the price the cycle was given
PlaceCall(side, qty, price, reduce_only, post_only, current_price, resp) ==
    [side |-> side, qty |-> qty, price |-> price, reduce_only |-> reduce_only,
     post_only |-> post_only, current_price |-> current_price, resp |-> resp]

\* the PnL without the quantity
log_pnl_NoQty(self) == self.exit_fill_price - self.entry_fill_price

\* PositionExecutor._log_pnl: the PnL written to the PNL log
log_pnl(self) == (self.exit_fill_price - self.entry_fill_price) * self.qty

\* the entry price shaded also when the market is exactly at the target
EntryLimitPrice_ShadesAtTarget(self, current_price) ==
    IF current_price <= self.target_entry
    THEN current_price - self.maker_offset_buy
    ELSE self.target_entry

\* the limit price of the entry order
EntryLimitPrice(self, current_price) ==
    IF current_price < self.target_entry
    THEN current_price - self.maker_offset_buy
    ELSE self.target_entry

\* the limit price of the exit order
ExitLimitPrice(self, current_price) ==
    IF current_price > self.target_exit
    THEN current_price + self.maker_offset_sell
    ELSE self.target_exit

\* the result of one cycle: the executor afterwards, the orders submitted and
\* the PnL entries logged
CycleResult(self, calls, pnl) == [self |-> self, calls |-> calls, pnl |-> pnl]

\* an entry cycle that counts a rejected submission as placed
CyclePendingEntry_AdvancesOnFailure(self, current_price, resp) ==
    LET call == PlaceCall("Buy", self.qty, EntryLimitPrice(self, current_price),
                          FALSE, TRUE, current_price, resp)
    IN  CycleResult([self EXCEPT !.active_order_id = resp.order_id,
                                 !.state = PLACED_ENTRY], <<call>>, <<>>)

\* PHASE A, PENDING_ENTRY
CyclePendingEntry(self, current_price, resp) ==
    LET call == PlaceCall("Buy", self.qty, EntryLimitPrice(self, current_price),
                          FALSE, TRUE, current_price, resp)
    IN  IF resp.kind = "ok"
        THEN CycleResult([self EXCEPT !.active_order_id = resp.order_id,
                                      !.state = PLACED_ENTRY], <<call>>, <<>>)
        ELSE CycleResult(self, <<call>>, <<>>)

\* a cancelled entry that keeps the dead order's id
CyclePlacedEntry_KeepsId(self, open_order_ids, order_history_map) ==
    LET order_data == HistoryGet(order_history_map, self.active_order_id)
    IN  IF self.active_order_id \notin open_order_ids /\ order_data # NoRecord
        THEN IF order_data.status = "Filled"
             THEN CycleResult([self EXCEPT !.entry_fill_price = order_data.avg_price,
                                           !.active_order_id = None,
                                           !.state = FILLED_WAIT], <<>>, <<>>)
             ELSE IF order_data.status \in CancelStatuses
             THEN CycleResult([self EXCEPT !.state = PENDING_ENTRY], <<>>, <<>>)
             ELSE CycleResult(self, <<>>, <<>>)
        ELSE CycleResult(self, <<>>, <<>>)

\* a filled entry booked at the target price instead of the average price
CyclePlacedEntry_FillAtTarget(self, open_order_ids, order_history_map) ==
    LET order_data == HistoryGet(order_history_map, self.active_order_id)
    IN  IF self.active_order_id \notin open_order_ids /\ order_data # NoRecord
        THEN IF order_data.status = "Filled"
             THEN CycleResult([self EXCEPT !.entry_fill_price = self.target_entry,
                                           !.active_order_id = None,
                                           !.state = FILLED_WAIT], <<>>, <<>>)
             ELSE IF order_data.status \in CancelStatuses
             THEN CycleResult([self EXCEPT !.active_order_id = None,
                                           !.state = PENDING_ENTRY], <<>>, <<>>)
             ELSE CycleResult(self, <<>>, <<>>)
        ELSE CycleResult(self, <<>>, <<>>)

\* an entry order found in neither the open set nor the history is given up
CyclePlacedEntry_UnknownRetries(self, open_order_ids, order_history_map) ==
    LET order_data == HistoryGet(order_history_map, self.active_order_id)
    IN  IF self.active_order_id \notin open_order_ids
        THEN IF order_data.status = "Filled"
             THEN CycleResult([self EXCEPT !.entry_fill_price = order_data.avg_price,
                                           !.active_order_id = None,
                                           !.state = FILLED_WAIT], <<>>, <<>>)
             ELSE IF order_data.status \in CancelStatuses \/ order_data = NoRecord
             THEN CycleResult([self EXCEPT !.active_order_id = None,
                                           !.state = PENDING_ENTRY], <<>>, <<>>)
             ELSE CycleResult(self, <<>>, <<>>)
        ELSE CycleResult(self, <<>>, <<>>)

\* a filled entry goes straight on to PLACED_EXIT
CyclePlacedEntry_SkipsLeg(self, open_order_ids, order_history_map) ==
    LET order_data == HistoryGet(order_history_map, self.active_order_id)
    IN  IF self.active_order_id \notin open_order_ids /\ order_data # NoRecord
        THEN IF order_data.status = "Filled"
             THEN CycleResult([self EXCEPT !.entry_fill_price = order_data.avg_price,
                                           !.state = PLACED_EXIT], <<>>, <<>>)
             ELSE IF order_data.status \in CancelStatuses
             THEN CycleResult([self EXCEPT !.active_order_id = None,
                                           !.state = PENDING_ENTRY], <<>>, <<>>)
             ELSE CycleResult(self, <<>>, <<>>)
        ELSE CycleResult(self, <<>>, <<>>)

\* PHASE A, PLACED_ENTRY
CyclePlacedEntry(self, open_order_ids, order_history_map) ==
    LET order_data == HistoryGet(order_history_map, self.active_order_id)
    IN  IF self.active_order_id \notin open_order_ids /\ order_data # NoRecord
        THEN IF order_data.status = "Filled"
             THEN CycleResult([self EXCEPT !.entry_fill_price = order_data.avg_price,
                                           !.active_order_id = None,
                                           !.state = FILLED_WAIT], <<>>, <<>>)
             ELSE IF order_data.status \in CancelStatuses
             THEN CycleResult([self EXCEPT !.active_order_id = None,
                                           !.state = PENDING_ENTRY], <<>>, <<>>)
             ELSE CycleResult(self, <<>>, <<>>)
        ELSE CycleResult(self, <<>>, <<>>)

\* an exit cycle that knows the reduce-only rejection by its code alone
CycleFilledWait_CodeOnly(self, current_price, resp) ==
    LET call == PlaceCall("Sell", self.qty, ExitLimitPrice(self, current_price),
                          TRUE, TRUE, current_price, resp)
    IN  IF resp.kind = "ok"
        THEN CycleResult([self EXCEPT !.active_order_id = resp.order_id,
                                      !.state = PLACED_EXIT], <<call>>, <<>>)
        ELSE IF resp.has_110017
        THEN CycleResult([self EXCEPT !.state = PENDING_ENTRY,
                                      !.active_order_id = None], <<call>>, <<>>)
        ELSE CycleResult(self, <<call>>, <<>>)

\* PHASE B, FILLED_WAIT
CycleFilledWait(self, current_price, resp) ==
    LET call == PlaceCall("Sell", self.qty, ExitLimitPrice(self, current_price),
                          TRUE, TRUE, current_price, resp)
    IN  IF resp.kind = "ok"
        THEN CycleResult([self EXCEPT !.active_order_id = resp.order_id,
                                      !.state = PLACED_EXIT], <<call>>, <<>>)
        ELSE IF resp.has_110017 \/ resp.has_reduceOnly
        THEN CycleResult([self EXCEPT !.state = PENDING_ENTRY,
                                      !.active_order_id = None], <<call>>, <<>>)
        ELSE CycleResult(self, <<call>>, <<>>)

\* an exit wait that reads the history although the order is still open
CyclePlacedExit_IgnoresOpen(self, open_order_ids, order_history_map) ==
    LET order_data == HistoryGet(order_history_map, self.active_order_id)
        filled == [self EXCEPT !.exit_fill_price = order_data.avg_price]
    IN  IF order_data # NoRecord
        THEN IF order_data.status = "Filled"
             THEN IF self.loop_trade
                  THEN CycleResult([filled EXCEPT !.state = PENDING_ENTRY,
                                                  !.active_order_id = None,
                                                  !.entry_fill_price = 0,
                                                  !.exit_fill_price = 0],
                                   <<>>, <<log_pnl(filled)>>)
                  ELSE CycleResult([filled EXCEPT !.state = COMPLETED],
                                   <<>>, <<log_pnl(filled)>>)
             ELSE IF order_data.status \in CancelStatuses
             THEN CycleResult([self EXCEPT !.active_order_id = None,
                                           !.state = FILLED_WAIT], <<>>, <<>>)
             ELSE CycleResult(self, <<>>, <<>>)
        ELSE CycleResult(self, <<>>, <<>>)

\* a cancelled exit that restarts the whole trade
CyclePlacedExit_CancelRestarts(self, open_order_ids, order_history_map) ==
    LET order_data == HistoryGet(order_history_map, self.active_order_id)
        filled == [self EXCEPT !.exit_fill_price = order_data.avg_price]
    IN  IF self.active_order_id \notin open_order_ids /\ order_data # NoRecord
        THEN IF order_data.status = "Filled"
             THEN IF self.loop_trade
                  THEN CycleResult([filled EXCEPT !.state = PENDING_ENTRY,
                                                  !.active_order_id = None,
                                                  !.entry_fill_price = 0,
                                                  !.exit_fill_price = 0],
                                   <<>>, <<log_pnl(filled)>>)
                  ELSE CycleResult([filled EXCEPT !.state = COMPLETED],
                                   <<>>, <<log_pnl(filled)>>)
             ELSE IF order_data.status \in CancelStatuses
             THEN CycleResult([self EXCEPT !.active_order_id = None,
                                           !.state = PENDING_ENTRY], <<>>, <<>>)
             ELSE CycleResult(self, <<>>, <<>>)
        ELSE CycleResult(self, <<>>, <<>>)

\* a filled exit that completes the trade whatever the loop flag says
CyclePlacedExit_IgnoresLoop(self, open_order_ids, order_history_map) ==
    LET order_data == HistoryGet(order_history_map, self.active_order_id)
        filled == [self EXCEPT !.exit_fill_price = order_data.avg_price]
    IN  IF self.active_order_id \notin open_order_ids /\ order_data # NoRecord
        THEN IF order_data.status = "Filled"
             THEN CycleResult([filled EXCEPT !.state = COMPLETED],
                              <<>>, <<log_pnl(filled)>>)
             ELSE IF order_data.status \in CancelStatuses
             THEN CycleResult([self EXCEPT !.active_order_id = None,
                                           !.state = FILLED_WAIT], <<>>, <<>>)
             ELSE CycleResult(self, <<>>, <<>>)
        ELSE CycleResult(self, <<>>, <<>>)

\* PHASE B, PLACED_EXIT
CyclePlacedExit(self, open_order_ids, order_history_map) ==
    LET order_data == HistoryGet(order_history_map, self.active_order_id)
        filled == [self EXCEPT !.exit_fill_price = order_data.avg_price]
    IN  IF self.active_order_id \notin open_order_ids /\ order_data # NoRecord
        THEN IF order_data.status = "Filled"
             THEN IF self.loop_trade
                  THEN CycleResult([filled EXCEPT !.state = PENDING_ENTRY,
                                                  !.active_order_id = None,
                                                  !.entry_fill_price = 0,
                                                  !.exit_fill_price = 0],
                                   <<>>, <<log_pnl(filled)>>)
                  ELSE CycleResult([filled EXCEPT !.state = COMPLETED],
                                   <<>>, <<log_pnl(filled)>>)
             ELSE IF order_data.status \in CancelStatuses
             THEN CycleResult([self EXCEPT !.active_order_id = None,
                                           !.state = FILLED_WAIT], <<>>, <<>>)
             ELSE CycleResult(self, <<>>, <<>>)
        ELSE CycleResult(self, <<>>, <<>>)

(***************************************************************************)
(* PositionExecutor.execute_cycle.  resp is the exchange's answer to the   *)
(* place_limit_order call of this cycle, should the cycle make one.        *)
(***************************************************************************)
execute_cycle(self, current_price, open_order_ids, order_history_map, resp) ==
    CASE self.state = PENDING_ENTRY -> CyclePendingEntry(self, current_price, resp)
      [] self.state = PLACED_ENTRY ->
            CyclePlacedEntry(self, open_order_ids, order_history_map)
      [] self.state = FILLED_WAIT -> CycleFilledWait(self, current_price, resp)
      [] self.state = PLACED_EXIT ->
            CyclePlacedExit(self, open_order_ids, order_history_map)
      [] OTHER -> CycleResult(self, <<>>, <<>>)

(***************************************************************************)
(* The environment of one cycle.                                           *)
(***************************************************************************)
\* the ids a snapshot of the exchange speaks about: the order the executor
\* holds, and a foreign one
SnapIds(self) == ({self.active_order_id} \ {None}) \cup {ForeignId}

\* the answers the exchange can give to an order submission: a fresh id while
\* the run's ids last, or a rejection
Responses == (IF nextId <= MaxOrders THEN {RespOk(nextId)} ELSE {})
             \cup RespErrors

\* the record of a call of execute_cycle: the executor before it, the two
\* lookups of its active order, the orders submitted, the PnL logged and the
\* state returned
CallRecord(pre, open_order_ids, order_history_map, r) ==
    [called |-> TRUE,
     pre |-> pre,
     in_open |-> pre.active_order_id \in open_order_ids,
     order_data |-> HistoryGet(order_history_map, pre.active_order_id),
     calls |-> r.calls,
     pnl |-> r.pnl,
     returned |-> r.self.state]

NoCallRecord(pre) ==
    [called |-> FALSE, pre |-> pre, in_open |-> FALSE, order_data |-> NoRecord,
     calls |-> <<>>, pnl |-> <<>>, returned |-> pre.state]

\* TradeManager.__init__ with its default offsets, before any process_tick
NewManager(maker_offset_buy, maker_offset_sell) ==
    [maker_offset_buy |-> maker_offset_buy, maker_offset_sell |-> maker_offset_sell]

\* what is remembered of the last process_tick call: how it ended, the fetch
\* that raised, the list before it and the executors after their cycles
NoTick == [status |-> "none", raised |-> "none", before |-> <<>>, cycled |-> <<>>]

(***************************************************************************)
(* The state file. A file is absent, holds the JSON text of a list of      *)
(* executor records or of a single-strategy dict, or holds a text that     *)
(* json.load rejects (an empty or cut-off file).                           *)
(***************************************************************************)
\* stand-ins for the position a strategy saves and get_open_position returns
Positions == {1, 2}
\* stand-ins for the other entries of a single-strategy state
AuxValues == {1}
NoDict == [position |-> None, aux |-> None]
\* the states run_live.py saves: a position (or none) and the other entries
DictStates == [position : {None} \cup Positions, aux : AuxValues]

NoFile == [kind |-> "absent", list |-> <<>>, dict |-> NoDict]
TornFile == [kind |-> "torn", list |-> <<>>, dict |-> NoDict]
ListFile(content) == [kind |-> "list", list |-> content, dict |-> NoDict]
DictFile(data) == [kind |-> "dict", list |-> <<>>, dict |-> data]

\* a call that returned None
ReturnedNone == [kind |-> "None", position |-> None, aux |-> None]
NoIo ==
    [op |-> "none", status |-> "none", before |-> <<>>, file_before |-> NoFile,
     pos |-> None, returned |-> ReturnedNone, after_failure |-> FALSE]

(***************************************************************************)
(* The values of the backtest side. Prices and quantities are integers;    *)
(* money (balance, margin, fee, PnL) is counted in units of 1/Unit, so     *)
(* that notional/leverage and notional*fee_rate stay whole. None stands    *)
(* for every price the code takes as absent (None and 0 are both falsy).   *)
(***************************************************************************)
Unit == 4
\* initial_balance, in whole money
InitialBalances == {6}
\* fee_rate, in 1/Unit
FeeRates == {1}
Leverages == {1, 2}
SimQtys == {1, 2}
SimPrices == 1..3

\* self.position = None
NoPosition == [side |-> "None", qty |-> 0, entry_notional |-> 0, margin_used |-> 0]
\* candle = None
NoCandle == [high |-> 0, low |-> 0, close |-> 0, timestamp |-> 0]

\* BacktestContext.__init__
NewContext(initial_balance, fee_rate) ==
    [balance |-> initial_balance * Unit,
     fee_rate |-> fee_rate,
     leverage |-> 1,
     position |-> NoPosition,
     trades |-> <<>>,
     pending_orders |-> <<>>,
     current_price |-> 0,
     current_time |-> None]

\* the long the context holds was opened by one buy (single), whose balance
\* before, quantity and price are kept, or grew by further buys (mixed)
NoOpened == [by |-> "none", balance_before |-> 0, qty |-> 0, price |-> 0]

\* no call on the context yet
NoSim ==
    [op |-> "none", qty |-> 0, price |-> None, post_only |-> FALSE,
     reduce_only |-> FALSE, candle |-> NoCandle, returned |-> "None",
     before |-> NewContext(0, 0), opened |-> NoOpened]

\* no backtest is running: the candles, the loop index, where the run is,
\* the step each resting order was queued at, the series last passed to the
\* decision logic, the indices the context was advanced for and the
\* decision logic was invoked for, and the queueing steps of the orders the
\* last advance examined
\* no report has been compiled
NoReport ==
    [kind |-> "none", initial_balance |-> 0, final_balance |-> 0,
     roi |-> [num |-> 0, den |-> 1], total_trades |-> 0]

NoRun ==
    [df |-> <<>>, i |-> 0, at |-> "idle", queued_at |-> <<>>,
     shown |-> <<>>, advanced |-> <<>>, ticked |-> <<>>, examined |-> <<>>,
     initial_balance |-> 0, report |-> NoReport]

\* PositionExecutor.__init__ of src/manager.py
NewLegacyExecutor(target_entry, target_exit, qty, maker_offset_buy, maker_offset_sell, loop_trade) ==
    [target_entry |-> target_entry, target_exit |-> target_exit, qty |-> qty,
     maker_offset_buy |-> maker_offset_buy, maker_offset_sell |-> maker_offset_sell,
     loop_trade |-> loop_trade,
     state |-> PENDING_ENTRY, active_order_id |-> None,
     is_order_confirmed_active |-> FALSE, stop_requested |-> FALSE,
     entry_fill_price |-> 0, exit_fill_price |-> 0]

\* TradeManager.__init__ of src/manager.py, with no call made on it yet: of
\* the last call the record keeps the executors before it, what each
\* abort_entry did about its order, the open-order set a tick read and what
\* each execute_cycle of the tick did
NoLegacy ==
    [client_has_cancel_order |-> FALSE, executors |-> <<>>, nextId |-> 1,
     op |-> "none", status |-> "none", before |-> <<>>, cancels |-> <<>>,
     open |-> {}, cycled |-> <<>>]

\* the backtest side is not part of the run
NoSimulation ==
    /\ ctx = NewContext(0, 0)
    /\ sim = NoSim
    /\ bt = NoRun

Init ==
    /\ \E te \in TargetEntries, tx \in TargetExits, q \in Qtys,
          ob \in Offsets, os \in Offsets, loop \in BOOLEAN :
            ex = NewExecutor(te, tx, q, ob, os, loop)
    /\ nextId = 1
    /\ last = NoCallRecord(ex)
    /\ manager = NewManager(0, 0)
    /\ executors = <<>>
    /\ tick = NoTick
    /\ file = NoFile
    /\ pc = "calls"
    /\ io = NoIo
    /\ NoSimulation
    /\ legacy = NoLegacy

\* one call of execute_cycle on ex; the exchange answers a submission only if
\* the cycle makes one
ExecuteCycle ==
    \E current_price \in Prices, open_order_ids \in SUBSET SnapIds(ex),
       order_history_map \in HistoryMaps(SnapIds(ex)) :
      \E resp \in (IF execute_cycle(ex, current_price, open_order_ids,
                                    order_history_map, NoCall).calls = <<>>
                   THEN {NoCall} ELSE Responses) :
        LET r == execute_cycle(ex, current_price, open_order_ids, order_history_map, resp)
        IN  /\ ex' = r.self
            /\ nextId' = IF \E i \in 1..Len(r.calls) : r.calls[i].resp.kind = "ok"
                         THEN nextId + 1 ELSE nextId
            /\ last' = CallRecord(ex, open_order_ids, order_history_map, r)
            /\ UNCHANGED <<managerVars, persistVars, simVars, legacy>>

Next == ExecuteCycle

Spec == Init /\ [][Next]_vars

(***************************************************************************)
(* TradeManager: the executor list and the polling tick.                   *)
(***************************************************************************)
\* the inputs of the manager's runs
TickPrices == {1, 4}
TickHistoryRecords == {[status |-> "Filled", avg_price |-> 4],
                       [status |-> "Cancelled", avg_price |-> 0]}
TickRespShapes == {RespOk(None), RespRaise(FALSE, FALSE)}

\* the ids of the orders the executors of a list hold
HeldIds(exs) == {exs[i].active_order_id : i \in 1..Len(exs)} \ {None}

\* the executor list with a new executor appended
add_trade_result(exs, mgr, target_entry, target_exit, qty, loop_trade) ==
    Append(exs, NewExecutor(target_entry, target_exit, qty,
                            mgr.maker_offset_buy, mgr.maker_offset_sell, loop_trade))

\* TradeManager.add_trade, called before the bot's loop starts
add_trade ==
    /\ pc \in {"calls", "setup"}
    /\ Len(executors) < MaxExecutors
    /\ \E te \in TargetEntries, tx \in TargetExits, q \in Qtys, loop \in BOOLEAN :
          executors' = add_trade_result(executors, manager, te, tx, q, loop)
    /\ tick' = NoTick
    /\ io' = NoIo
    /\ UNCHANGED <<manager, nextId, execVars, simVars, legacy, file, pc>>

\* the loop of process_tick over the executors from index i on: every
\* executor's cycle runs once, in list order, on the same price, open set and
\* history map; shapes[i] is the exchange's answer to executor i's submission,
\* id the next order id and cycled the executors already through their cycle.
\* The result holds the executors after their cycles and the next order id.
RECURSIVE RunCycles(_, _, _, _, _, _, _, _)
RunCycles(exs, i, current_price, active_ids, h_map, shapes, id, cycled) ==
    IF i > Len(exs)
    THEN [cycled |-> cycled, nextId |-> id]
    ELSE LET resp == IF shapes[i].kind = "ok" THEN RespOk(id) ELSE shapes[i]
             r == execute_cycle(exs[i], current_price, active_ids, h_map, resp)
         IN  RunCycles(exs, i + 1, current_price, active_ids, h_map, shapes,
                       IF r.calls # <<>> /\ resp.kind = "ok" THEN id + 1 ELSE id,
                       Append(cycled, r.self))

\* a tick that keeps every executor
ActiveExecutors_KeepsAll(cycled) == cycled

\* the executors process_tick keeps: those whose cycle did not return COMPLETED
ActiveExecutors(cycled) == SelectSeq(cycled, LAMBDA e : e.state # COMPLETED)

\* the answers the exchange can give in one tick, from executor i on: one
\* answer exactly where a cycle submits an order
RECURSIVE TickShapes(_, _, _, _, _)
TickShapes(exs, i, current_price, active_ids, h_map) ==
    IF i > Len(exs)
    THEN {<<>>}
    ELSE LET here == IF execute_cycle(exs[i], current_price, active_ids, h_map,
                                      NoCall).calls = <<>>
                     THEN {NoCall}
                     ELSE TickRespShapes
         IN  {<<a>> \o rest : a \in here,
                rest \in TickShapes(exs, i + 1, current_price, active_ids, h_map)}

\* an exception of the tick that reaches the caller
TickStatus_Propagates(raised) == IF raised = "none" THEN "done" ELSE "propagated"

\* how process_tick ends: its except clause logs whatever was raised and the
\* call returns
TickStatus(raised) == IF raised = "none" THEN "done" ELSE "skipped"

\* a tick whose failing fetch comes after the first executor's cycle
AbortedExecutors_FirstAdvanced(before) ==
    [before EXCEPT ![1].state = PLACED_ENTRY, ![1].active_order_id = 1]

\* the list after a tick that an exception ended: the three fetches come
\* before the loop and the except clause assigns nothing
AbortedExecutors(before) == before

\* the record of a tick is kept where the tick itself is examined; the runs
\* of the saving main loop keep none
TickRecord(rec) == IF pc = "tick" THEN NoTick ELSE rec

\* the caller of process_tick: the manager's methods called in any order
\* ("calls"), the loop process_tick; sleep ("loop"), or the loop
\* process_tick; save_to_disk; sleep ("tick", then "save"); process_tick
\* reads and writes no file
TickCaller ==
    /\ pc \in {"calls", "loop", "tick"}
    /\ pc' = IF pc = "tick" THEN "save" ELSE pc
    /\ io' = IF pc = "tick"
             THEN [NoIo EXCEPT !.after_failure = (io.op = "save" /\ io.status = "failed")]
             ELSE io
    /\ file' = file

\* process_tick on an empty list returns at once
process_tick_empty ==
    /\ executors = <<>>
    /\ tick' = TickRecord([NoTick EXCEPT !.status = "empty"])
    /\ TickCaller
    /\ UNCHANGED <<manager, executors, nextId, execVars, simVars, legacy>>

\* process_tick when get_current_price, get_open_orders or get_order_history
\* raises: the exception is logged and the tick ends
process_tick_fetch_raises ==
    /\ executors # <<>>
    /\ \E raised \in {"get_current_price", "get_open_orders", "get_order_history"} :
          tick' = TickRecord([status |-> TickStatus(raised), raised |-> raised,
                              before |-> executors, cycled |-> <<>>])
    /\ executors' = AbortedExecutors(executors)
    /\ TickCaller
    /\ UNCHANGED <<manager, nextId, execVars, simVars, legacy>>

\* process_tick when the three fetches succeed
process_tick_cycles ==
    /\ executors # <<>>
    /\ \E current_price \in TickPrices, active_ids \in SUBSET HeldIds(executors) :
        \E h_map \in UNION {[D -> TickHistoryRecords] :
                               D \in SUBSET (HeldIds(executors) \ active_ids)} :
          \E shapes \in TickShapes(executors, 1, current_price, active_ids, h_map) :
            \E run \in {RunCycles(executors, 1, current_price, active_ids, h_map,
                                   shapes, nextId, <<>>)} :
                /\ run.nextId <= MaxOrders + 1
                /\ executors' = ActiveExecutors(run.cycled)
                /\ nextId' = run.nextId
                /\ tick' = TickRecord([status |-> TickStatus("none"), raised |-> "none",
                                       before |-> executors, cycled |-> run.cycled])
    /\ TickCaller
    /\ UNCHANGED <<manager, execVars, simVars, legacy>>

\* TradeManager.process_tick
process_tick ==
    \/ process_tick_empty
    \/ process_tick_fetch_raises
    \/ process_tick_cycles

InitManager ==
    /\ manager = NewManager(0, 0)
    /\ executors = <<>>
    /\ tick = NoTick
    /\ nextId = 1
    /\ ex = NewExecutor(2, 3, 2, 0, 0, FALSE)
    /\ last = NoCallRecord(ex)
    /\ file = NoFile
    /\ pc = "calls"
    /\ io = NoIo
    /\ NoSimulation
    /\ legacy = NoLegacy

NextManager ==
    \/ add_trade
    \/ process_tick

SpecManager == InitManager /\ [][NextManager]_vars

(***************************************************************************)
(* Persistence: to_dict / from_dict, save_to_disk, load_from_disk,         *)
(* clear_state and reconcile_after_crash, driven by a bot that sets its    *)
(* manager up and then runs the loop process_tick; save_to_disk; sleep.    *)
(* json.dump and json.load keep numbers, strings, booleans and None as     *)
(* they are, so a file is modelled by the value it encodes.                *)
(***************************************************************************)
\* PositionExecutor.to_dict: nine keys, state by its enum value
to_dict(self) ==
    [target_entry |-> self.target_entry, target_exit |-> self.target_exit,
     qty |-> self.qty, maker_offset_buy |-> self.maker_offset_buy,
     maker_offset_sell |-> self.maker_offset_sell, loop_trade |-> self.loop_trade,
     state |-> self.state, active_order_id |-> self.active_order_id,
     entry_fill_price |-> self.entry_fill_price]

\* a reconstruction that forgets the entry fill price
from_dict_NoFillPrice(data) ==
    [NewExecutor(data.target_entry, data.target_exit, data.qty,
                 data.maker_offset_buy, data.maker_offset_sell, data.loop_trade)
        EXCEPT !.state = data.state, !.active_order_id = data.active_order_id]

\* the keys from_dict reads with data[key]; a record without one of them
\* raises KeyError
RequiredKeys ==
    {"target_entry", "target_exit", "qty", "maker_offset_buy", "maker_offset_sell",
     "state", "active_order_id"}

\* from_dict raises on this record
KeyErrorIn(data) == ~(RequiredKeys \subseteq DOMAIN data)

\* PositionExecutor.from_dict: a new executor (state PENDING_ENTRY, no order,
\* fill prices 0) that then takes state, active_order_id and entry_fill_price
\* from the record; loop_trade and entry_fill_price are read with defaults;
\* a state that is no ExecutorState becomes PENDING_ENTRY
from_dict(data) ==
    [NewExecutor(data.target_entry, data.target_exit, data.qty,
                 data.maker_offset_buy, data.maker_offset_sell,
                 IF "loop_trade" \in DOMAIN data THEN data.loop_trade ELSE FALSE)
        EXCEPT !.state = IF data.state \in ExecutorState
                         THEN data.state ELSE PENDING_ENTRY,
               !.active_order_id = data.active_order_id,
               !.entry_fill_price = IF "entry_fill_price" \in DOMAIN data
                                    THEN data.entry_fill_price ELSE 0]

\* TradeManager.get_ui_data
get_ui_data(exs) == [i \in 1..Len(exs) |-> to_dict(exs[i])]

\* the executors load_from_disk builds from a list of records
LoadList(list) == [i \in 1..Len(list) |-> from_dict(list[i])]

\* how a save_to_disk call can go: the text is written; open() raises and
\* the file is as it was; or open() has emptied the file and json.dump raises
SaveOutcomes == {"written", "open_fails", "dump_fails"}

\* a save that writes nothing
FileAfterSave_KeepsOld(old, content, outcome) == old

\* the file after save_to_disk
FileAfterSave(old, content, outcome) ==
    CASE outcome = "written" -> content
      [] outcome = "open_fails" -> old
      [] OTHER -> TornFile

\* a save whose exception reaches the caller
SaveStatus_Propagates(outcome) == IF outcome = "written" THEN "saved" ELSE "propagated"

\* how save_to_disk ends: its except clause logs the exception and the call
\* returns
SaveStatus(outcome) == IF outcome = "written" THEN "saved" ELSE "failed"

\* TradeManager.save_to_disk with the given content
save_to_disk(op, content) ==
    /\ \E outcome \in SaveOutcomes :
          /\ file' = FileAfterSave(file, content, outcome)
          /\ io' = [NoIo EXCEPT !.op = op, !.status = SaveStatus(outcome),
                                !.before = executors,
                                !.file_before = IF outcome = "written" THEN NoFile ELSE file,
                                !.after_failure = io.after_failure]
    /\ UNCHANGED <<manager, executors, nextId, execVars, simVars, legacy>>

\* TradeManager.save_state: run_live.py saves its single-strategy state
save_state ==
    /\ pc = "setup"
    /\ \E data \in DictStates : save_to_disk("save_state", DictFile(data))
    /\ UNCHANGED <<pc, tick>>

\* some record of the list makes from_dict raise
Malformed(list) == \E i \in 1..Len(list) : KeyErrorIn(list[i])

\* a load that keeps the executors built before the record that raised
Loaded_Partial(f, exs) ==
    CASE f.kind = "list" /\ Malformed(f.list) ->
            [kind |-> "None",
             executors |-> LoadList(SubSeq(f.list, 1,
                              (CHOOSE i \in 1..Len(f.list) :
                                  /\ KeyErrorIn(f.list[i])
                                  /\ \A j \in 1..(i - 1) : ~KeyErrorIn(f.list[j])) - 1)),
             dict |-> NoDict]
      [] f.kind = "list" /\ ~Malformed(f.list) ->
            [kind |-> "list", executors |-> LoadList(f.list), dict |-> NoDict]
      [] f.kind = "dict" -> [kind |-> "dict", executors |-> exs, dict |-> f.dict]
      [] OTHER -> [kind |-> "None", executors |-> exs, dict |-> NoDict]

\* what load_from_disk returns (saved) and leaves in self.executors: a list
\* whose records all pass from_dict replaces the executors, the assignment
\* being made once the whole comprehension is through; a dict is returned as
\* it is; a missing file, a text json.load rejects and a list with a record
\* on which from_dict raises give None, the except clause ending the call
Loaded(f, exs) ==
    CASE f.kind = "list" /\ ~Malformed(f.list) ->
            [kind |-> "list", executors |-> LoadList(f.list), dict |-> NoDict]
      [] f.kind = "dict" -> [kind |-> "dict", executors |-> exs, dict |-> f.dict]
      [] OTHER -> [kind |-> "None", executors |-> exs, dict |-> NoDict]

\* TradeManager.load_from_disk
load_from_disk ==
    /\ pc = "setup"
    /\ executors' = Loaded(file, executors).executors
    /\ io' = [NoIo EXCEPT !.op = "load", !.status = Loaded(file, executors).kind,
                          !.before = executors,
                          !.returned = IF Loaded(file, executors).kind = "dict"
                                       THEN [kind |-> "dict",
                                             position |-> file.dict.position,
                                             aux |-> file.dict.aux]
                                       ELSE [ReturnedNone EXCEPT
                                               !.kind = Loaded(file, executors).kind]]
    /\ tick' = NoTick
    /\ UNCHANGED <<manager, nextId, execVars, simVars, legacy, file, pc>>

\* a guard that never sees a position in the saved state
HasPosFlag_Never(saved) == FALSE

\* reconcile_after_crash, scenario 2: the saved state is truthy and says that
\* a position should be open: a dict with a position, or a non-empty list
HasPosFlag(saved) ==
    \/ saved.kind = "dict" /\ saved.dict.position # None
    \/ saved.kind = "list" /\ Len(saved.executors) > 0

\* TradeManager.clear_state: the file is removed if it exists; an exception
\* of os.remove is swallowed
clear_state(f, remove_ok) == IF f.kind # "absent" /\ remove_ok THEN NoFile ELSE f

\* a recovery that keeps the saved position
Recovered_KeepsSaved(saved, actual_pos) ==
    IF saved.kind = "dict"
    THEN [kind |-> "dict", position |-> saved.dict.position, aux |-> saved.dict.aux]
    ELSE [kind |-> "dict", position |-> actual_pos, aux |-> None]

\* reconcile_after_crash, scenario 1: the saved dict with its position
\* replaced by the exchange's, or a dict with the position alone
Recovered(saved, actual_pos) ==
    IF saved.kind = "dict"
    THEN [kind |-> "dict", position |-> actual_pos, aux |-> saved.dict.aux]
    ELSE [kind |-> "dict", position |-> actual_pos, aux |-> None]

\* TradeManager.reconcile_after_crash
reconcile_after_crash ==
    /\ pc = "setup"
    /\ \E actual_pos \in {None} \cup Positions :
        \E saved \in {Loaded(file, executors)} :
          \E remove_ok \in (IF actual_pos = None /\ HasPosFlag(saved)
                            THEN BOOLEAN ELSE {TRUE}) :
            LET cleared == actual_pos = None /\ HasPosFlag(saved)
            IN  /\ file' = IF cleared THEN clear_state(file, remove_ok) ELSE file
                /\ executors' = IF cleared THEN <<>> ELSE saved.executors
                /\ io' = [NoIo EXCEPT
                            !.op = "reconcile",
                            !.status = IF ~cleared THEN "kept"
                                       ELSE IF remove_ok THEN "removed"
                                       ELSE "remove_failed",
                            !.before = executors, !.file_before = file,
                            !.pos = actual_pos,
                            !.returned = IF actual_pos # None
                                         THEN Recovered(saved, actual_pos)
                                         ELSE ReturnedNone]
    /\ tick' = NoTick
    /\ UNCHANGED <<manager, nextId, execVars, simVars, legacy, pc>>

\* the bot enters its main loop
start_loop ==
    /\ pc = "setup"
    /\ pc' = "tick"
    /\ io' = NoIo
    /\ UNCHANGED <<manager, executors, tick, nextId, execVars, simVars, legacy, file>>

\* main loop: manager.save_to_disk(...) of the executor list, then the sleep
main_loop_save ==
    /\ pc = "save"
    /\ save_to_disk("save", ListFile(get_ui_data(executors)))
    /\ pc' = "tick"
    /\ UNCHANGED tick

\* the process dies (power cut, kill, an interrupt that is not masked) and is
\* started again: the memory of the old process is lost, the file stays; a
\* process that dies inside save_to_disk, after open() has emptied the file
\* and before json.dump has written all of the text, leaves a cut-off file
crash ==
    /\ \E torn \in (IF pc = "save" THEN BOOLEAN ELSE {FALSE}) :
          file' = IF torn THEN TornFile ELSE file
    /\ executors' = <<>>
    /\ tick' = NoTick
    /\ pc' = "setup"
    /\ io' = [NoIo EXCEPT !.op = "crash", !.status = pc]
    /\ UNCHANGED <<manager, nextId, execVars, simVars, legacy>>

\* a bot's process has built its client and its manager
InitBot ==
    /\ manager = NewManager(0, 0)
    /\ executors = <<>>
    /\ tick = NoTick
    /\ nextId = 1
    /\ ex = NewExecutor(2, 3, 2, 0, 0, FALSE)
    /\ last = NoCallRecord(ex)
    /\ file = NoFile
    /\ pc = "setup"
    /\ io = NoIo
    /\ NoSimulation
    /\ legacy = NoLegacy

NextPersist ==
    \/ add_trade
    \/ save_state
    \/ load_from_disk
    \/ reconcile_after_crash
    \/ start_loop
    \/ process_tick
    \/ main_loop_save
    \/ crash

SpecPersist == InitBot /\ [][NextPersist]_vars

(***************************************************************************)
(* load_from_disk on the files a bot can find at start: written by an      *)
(* earlier run, by an older version or by hand.                            *)
(***************************************************************************)
\* the record without one of its keys
Without(record, key) == [k \in DOMAIN record \ {key} |-> record[k]]

\* a record as to_dict writes it
FullRecord ==
    to_dict([NewExecutor(2, 3, 1, 0, 0, TRUE) EXCEPT
                !.state = PLACED_EXIT, !.active_order_id = 1, !.entry_fill_price = 2])

\* records from_dict takes: the full one, one without the keys read with a
\* default, and one whose state is no ExecutorState
ValidRecords ==
    {FullRecord,
     Without(Without(FullRecord, "loop_trade"), "entry_fill_price"),
     [FullRecord EXCEPT !.state = "BOGUS"]}

\* records on which from_dict raises KeyError
MalformedRecords ==
    {Without(FullRecord, "state"), Without(FullRecord, "active_order_id")}

\* the state files at the start of a bot
StartFiles ==
    {NoFile, TornFile}
    \cup {DictFile(data) : data \in DictStates}
    \cup {ListFile(<<>>)}
    \cup {ListFile(<<r>>) : r \in ValidRecords \cup MalformedRecords}
    \cup {ListFile(<<FullRecord, r>>) : r \in ValidRecords \cup MalformedRecords}
    \cup {ListFile(<<r, FullRecord>>) : r \in MalformedRecords}

InitLoad ==
    /\ manager = NewManager(0, 0)
    /\ executors = <<>>
    /\ tick = NoTick
    /\ nextId = 1
    /\ ex = NewExecutor(2, 3, 2, 0, 0, FALSE)
    /\ last = NoCallRecord(ex)
    /\ file \in StartFiles
    /\ pc = "setup"
    /\ io = NoIo
    /\ NoSimulation
    /\ legacy = NoLegacy

NextLoad ==
    \/ add_trade
    \/ load_from_disk

SpecLoad == InitLoad /\ [][NextLoad]_vars

(***************************************************************************)
(* The polling loop under fairness: the manager is set up, then the loop   *)
(* while True: process_tick(); sleep runs for ever. The exchange is fair   *)
(* to every executor: a submission that keeps being made is accepted at    *)
(* some tick, and an order that keeps being held is, at some tick, out of  *)
(* the open set and Filled in the fetched history.                         *)
(***************************************************************************)
\* the bot enters a loop that only ticks
start_ticking ==
    /\ pc = "setup"
    /\ pc' = "loop"
    /\ UNCHANGED <<manager, executors, tick, nextId, execVars, simVars, legacy, file, io>>

\* one iteration of the loop
loop_tick ==
    /\ pc = "loop"
    /\ process_tick

\* a tick in which the order executor i submits is accepted
TickPlaces(i) ==
    /\ i <= Len(executors)
    /\ executors[i].state \in {PENDING_ENTRY, FILLED_WAIT}
    /\ loop_tick
    /\ tick'.status = "done"
    /\ tick'.cycled[i].state \in {PLACED_ENTRY, PLACED_EXIT}

\* a tick whose snapshot shows the order executor i holds as Filled
TickFills(i) ==
    /\ i <= Len(executors)
    /\ executors[i].state \in {PLACED_ENTRY, PLACED_EXIT}
    /\ loop_tick
    /\ tick'.status = "done"
    /\ \/ /\ executors[i].state = PLACED_ENTRY
          /\ tick'.cycled[i].state = FILLED_WAIT
       \/ /\ executors[i].state = PLACED_EXIT
          /\ tick'.cycled[i].state \in {COMPLETED, PENDING_ENTRY}

NextFair ==
    \/ add_trade
    \/ start_ticking
    \/ process_tick

Fairness ==
    /\ WF_vars(loop_tick)
    /\ \A i \in 1..MaxExecutors : SF_vars(TickPlaces(i)) /\ SF_vars(TickFills(i))

SpecFair == InitBot /\ [][NextFair]_vars /\ Fairness

(***************************************************************************)
(* Properties of PositionExecutor.execute_cycle, checked under Spec.       *)
(***************************************************************************)
\* the last call found its order gone from the open set with this history status
Vanished(status) ==
    /\ last.called
    /\ ~last.in_open
    /\ last.order_data.status = status

\* C1: an order is submitted only from PENDING_ENTRY or FILLED_WAIT, at most
\* one per cycle, and in these two states the executor holds no order id, so
\* no order is ever submitted while one is outstanding
C1_NoOrderWhileOutstanding ==
    /\ Len(last.calls) <= 1
    /\ last.calls # <<>> =>
          /\ last.pre.state \in {PENDING_ENTRY, FILLED_WAIT}
          /\ last.pre.active_order_id = None
    /\ ex.state \in {PENDING_ENTRY, FILLED_WAIT} => ex.active_order_id = None

\* the exit order was submitted and accepted after the entry order was settled
C1_Witness ==
    /\ last.pre.state = FILLED_WAIT
    /\ Len(last.calls) = 1
    /\ last.calls[1].resp.kind = "ok"
    /\ ex.state = PLACED_EXIT
    /\ ex.active_order_id = last.calls[1].resp.order_id

\* C2: PLACED_ENTRY, order gone from the open set, history says Filled: the
\* cycle ends in FILLED_WAIT with the history's average price as entry fill
\* price and no order id, and submits nothing
C2_EntryFilled ==
    (last.pre.state = PLACED_ENTRY /\ Vanished("Filled")) =>
        /\ ex.state = FILLED_WAIT
        /\ ex.entry_fill_price = last.order_data.avg_price
        /\ ex.active_order_id = None
        /\ last.calls = <<>>

C2_Witness ==
    /\ last.pre.state = PLACED_ENTRY
    /\ Vanished("Filled")
    /\ last.order_data.avg_price # last.pre.target_entry
    /\ ex.state = FILLED_WAIT

\* C3: in PLACED_ENTRY or PLACED_EXIT, an order still in the open set
\* (whatever the history says), or one in neither the open set nor the
\* history, leaves the executor as it was and nothing is submitted
C3_WaitIsNoOp ==
    (/\ last.called
     /\ last.pre.state \in {PLACED_ENTRY, PLACED_EXIT}
     /\ (last.in_open \/ last.order_data = NoRecord)) =>
        /\ ex = last.pre
        /\ last.calls = <<>>
        /\ last.pnl = <<>>

\* the order is still open although the history already reports it filled
C3_Witness ==
    /\ last.called
    /\ last.pre.state = PLACED_EXIT
    /\ last.in_open
    /\ last.order_data.status = "Filled"
    /\ ex.state = PLACED_EXIT

\* C4: a cancelled, rejected or deactivated order is forgotten and its leg is
\* retried: PLACED_ENTRY goes back to PENDING_ENTRY, PLACED_EXIT goes back to
\* FILLED_WAIT and keeps the entry fill price
C4_CancelRetriesSameLeg ==
    \A status \in CancelStatuses :
        /\ (last.pre.state = PLACED_ENTRY /\ Vanished(status)) =>
              /\ ex.state = PENDING_ENTRY
              /\ ex.active_order_id = None
        /\ (last.pre.state = PLACED_EXIT /\ Vanished(status)) =>
              /\ ex.state = FILLED_WAIT
              /\ ex.active_order_id = None
              /\ ex.entry_fill_price = last.pre.entry_fill_price

C4_Witness ==
    /\ last.pre.state = PLACED_EXIT
    /\ Vanished("Deactivated")
    /\ ex.state = FILLED_WAIT
    /\ ex.entry_fill_price # 0

\* C5: a cycle in PENDING_ENTRY submits the entry order; rejected, the
\* executor stays in PENDING_ENTRY without an order id (and so submits again
\* on the next cycle); accepted, it is in PLACED_ENTRY with the returned id
C5_EntrySubmission ==
    (last.called /\ last.pre.state = PENDING_ENTRY) =>
        /\ Len(last.calls) = 1
        /\ last.calls[1].side = "Buy"
        /\ last.calls[1].resp.kind = "raise" =>
              /\ ex.state = PENDING_ENTRY
              /\ ex.active_order_id = None
        /\ last.calls[1].resp.kind = "ok" =>
              /\ ex.state = PLACED_ENTRY
              /\ ex.active_order_id = last.calls[1].resp.order_id
              /\ ex.active_order_id # None

\* a rejected entry submission
C5_Witness ==
    /\ last.called
    /\ last.pre.state = PENDING_ENTRY
    /\ Len(last.calls) = 1
    /\ last.calls[1].resp.kind = "raise"
    /\ ex.state = PENDING_ENTRY

\* C6: a cycle in FILLED_WAIT submits the exit order; a rejection naming
\* 110017 or reduceOnly resets the executor to PENDING_ENTRY, any other
\* rejection leaves it in FILLED_WAIT, both without an order id; accepted,
\* it is in PLACED_EXIT with the returned id
C6_ExitSubmission ==
    (last.called /\ last.pre.state = FILLED_WAIT) =>
        /\ Len(last.calls) = 1
        /\ last.calls[1].side = "Sell"
        /\ LET resp == last.calls[1].resp
           IN  /\ (resp.kind = "raise" /\ (resp.has_110017 \/ resp.has_reduceOnly)) =>
                     /\ ex.state = PENDING_ENTRY
                     /\ ex.active_order_id = None
               /\ (resp.kind = "raise" /\ ~resp.has_110017 /\ ~resp.has_reduceOnly) =>
                     /\ ex.state = FILLED_WAIT
                     /\ ex.active_order_id = None
               /\ resp.kind = "ok" =>
                     /\ ex.state = PLACED_EXIT
                     /\ ex.active_order_id = resp.order_id
                     /\ ex.active_order_id # None

\* an exit submission rejected with a message that names reduceOnly only
C6_Witness ==
    /\ last.called
    /\ last.pre.state = FILLED_WAIT
    /\ Len(last.calls) = 1
    /\ last.calls[1].resp.kind = "raise"
    /\ last.calls[1].resp.has_reduceOnly
    /\ ~last.calls[1].resp.has_110017
    /\ ex.state = PENDING_ENTRY

\* C7: PLACED_EXIT, order gone from the open set, history says Filled: the
\* PnL (exit - entry) * qty is logged; a looping executor is back in
\* PENDING_ENTRY with no order id and both fill prices 0, any other is
\* COMPLETED with the exit fill price recorded
C7_ExitFilled ==
    (last.pre.state = PLACED_EXIT /\ Vanished("Filled")) =>
        /\ last.pnl = <<(last.order_data.avg_price - last.pre.entry_fill_price)
                          * last.pre.qty>>
        /\ last.pre.loop_trade =>
              /\ ex.state = PENDING_ENTRY
              /\ ex.active_order_id = None
              /\ ex.entry_fill_price = 0
              /\ ex.exit_fill_price = 0
        /\ ~last.pre.loop_trade =>
              /\ ex.state = COMPLETED
              /\ ex.exit_fill_price = last.order_data.avg_price

\* a looping executor closed a trade at a profit
C7_Witness ==
    /\ last.pre.state = PLACED_EXIT
    /\ Vanished("Filled")
    /\ last.pre.loop_trade
    /\ last.pnl # <<>>
    /\ last.pnl[1] > last.order_data.avg_price - last.pre.entry_fill_price
    /\ ex.state = PENDING_ENTRY

\* C8: a looping executor is never COMPLETED, and a cycle of a COMPLETED
\* executor changes nothing and submits nothing
C8_CompletedTerminal ==
    /\ ex.loop_trade => ex.state # COMPLETED
    /\ (last.called /\ last.pre.state = COMPLETED) =>
          /\ ex = last.pre
          /\ last.calls = <<>>
          /\ last.pnl = <<>>
          /\ last.returned = COMPLETED

\* execute_cycle was called on a COMPLETED executor
C8_Witness ==
    /\ last.called
    /\ last.pre.state = COMPLETED
    /\ ~ex.loop_trade
    /\ ex.state = COMPLETED

\* C9: every entry order is a post-only, non-reduce-only Buy of qty, priced
\* current - maker_offset_buy when current < target_entry and target_entry
\* otherwise; every exit order is a post-only, reduce-only Sell of qty,
\* priced current + maker_offset_sell when current > target_exit and
\* target_exit otherwise; with offsets >= 0 a Buy is never priced above the
\* current price and a Sell never below it
C9_OrderParameters ==
    \A i \in 1..Len(last.calls) :
        LET c == last.calls[i]
            p == last.pre
        IN  /\ c.post_only
            /\ c.qty = p.qty
            /\ c.side = (IF p.state = PENDING_ENTRY THEN "Buy" ELSE "Sell")
            /\ c.side = "Buy" =>
                  /\ ~c.reduce_only
                  /\ c.current_price < p.target_entry =>
                        c.price = c.current_price - p.maker_offset_buy
                  /\ c.current_price >= p.target_entry => c.price = p.target_entry
                  /\ p.maker_offset_buy >= 0 => c.price <= c.current_price
            /\ c.side = "Sell" =>
                  /\ c.reduce_only
                  /\ c.current_price > p.target_exit =>
                        c.price = c.current_price + p.maker_offset_sell
                  /\ c.current_price <= p.target_exit => c.price = p.target_exit
                  /\ p.maker_offset_sell >= 0 => c.price >= c.current_price

\* an entry order shaded below a market that is better than the target
C9_Witness ==
    /\ Len(last.calls) = 1
    /\ last.calls[1].side = "Buy"
    /\ last.pre.maker_offset_buy > 0
    /\ last.calls[1].current_price < last.pre.target_entry
    /\ last.calls[1].price < last.calls[1].current_price

\* the snapshot of the last call, as far as an executor reads it: the price,
\* whether its order was open and the history record of that order; an order
\* the last call submitted is in neither
LastPrices == IF last.calls # <<>> THEN {last.calls[1].current_price} ELSE Prices
LastOpenIds == IF last.in_open THEN {last.pre.active_order_id} ELSE {}
LastHistory ==
    [id \in (IF last.order_data = NoRecord THEN {} ELSE {last.pre.active_order_id})
        |-> last.order_data]

\* a second call of execute_cycle on the snapshot of the last one
SecondCycle(current_price, resp) ==
    execute_cycle(ex, current_price, LastOpenIds, LastHistory, resp)

\* C19 as stated: a second call on the same price, open set and history map
\* leaves the executor as the first call left it and submits no order
C19_AsClaimed ==
    last.called =>
        \A current_price \in LastPrices, resp \in Responses :
            /\ SecondCycle(current_price, resp).self = ex
            /\ SecondCycle(current_price, resp).calls = <<>>

\* C19, amended: a second call on the same snapshot changes nothing and
\* submits nothing when the first call left the executor in PLACED_ENTRY,
\* PLACED_EXIT or COMPLETED; when the first call left it in PENDING_ENTRY or
\* FILLED_WAIT, the second call submits an order, and moves the executor on
\* if the exchange accepts it
C19_RepeatedCycle ==
    last.called =>
        \A current_price \in LastPrices, resp \in Responses :
            LET r2 == SecondCycle(current_price, resp)
            IN  /\ ex.state \in {PLACED_ENTRY, PLACED_EXIT, COMPLETED} =>
                      /\ r2.self = ex
                      /\ r2.calls = <<>>
                      /\ r2.pnl = <<>>
                /\ ex.state \in {PENDING_ENTRY, FILLED_WAIT} =>
                      /\ Len(r2.calls) = 1
                      /\ resp.kind = "ok" =>
                            /\ r2.self.state \in {PLACED_ENTRY, PLACED_EXIT}
                            /\ r2.self.active_order_id = resp.order_id

\* the first call saw the entry order filled; a second call on the same
\* snapshot submits the exit order
C19_Witness ==
    /\ last.pre.state = PLACED_ENTRY
    /\ Vanished("Filled")
    /\ ex.state = FILLED_WAIT
    /\ \E current_price \in LastPrices, resp \in Responses :
          /\ resp.kind = "ok"
          /\ Len(SecondCycle(current_price, resp).calls) = 1
          /\ SecondCycle(current_price, resp).calls[1].side = "Sell"
          /\ SecondCycle(current_price, resp).self.state = PLACED_EXIT

(***************************************************************************)
(* Properties of TradeManager.process_tick, checked under SpecManager.     *)
(***************************************************************************)
\* a process_tick call has just returned
TickReturned == tick.status \in {"empty", "skipped", "done"}

NoCompleted(exs) == \A i \in 1..Len(exs) : exs[i].state # COMPLETED

\* post is what one call of execute_cycle can make of pre
OneCycle(pre, post) ==
    \E current_price \in TickPrices, active_ids \in SUBSET SnapIds(pre),
       resp \in {RespOk(id) : id \in OrderIds} \cup RespErrors :
        \E h_map \in UNION {[D -> TickHistoryRecords] : D \in SUBSET SnapIds(pre)} :
            execute_cycle(pre, current_price, active_ids, h_map, resp).self = post

\* the survivors of a tick are the executors that are not COMPLETED after
\* their cycle, in the order of the list
SurvivorsInOrder ==
    executors = SelectSeq(tick.cycled, LAMBDA e : e.state # COMPLETED)

\* every executor of the list went through exactly one cycle, in list order
EveryCycleOnce ==
    /\ Len(tick.cycled) = Len(tick.before)
    /\ \A i \in 1..Len(tick.before) : OneCycle(tick.before[i], tick.cycled[i])

RetryAfterSkip ==
    (tick.status = "skipped" /\ tick'.status = "done") =>
        /\ tick'.before = executors
        /\ tick'.before = tick.before
        /\ Len(tick'.cycled) = Len(executors)
        /\ executors' = SelectSeq(tick'.cycled, LAMBDA e : e.state # COMPLETED)

FileIsCurrent == file = ListFile(get_ui_data(executors))

\* C13 as stated: when an iteration of the main loop is over (process_tick
\* and the save_to_disk after it have returned), the state file holds the
\* serialization of the manager's executor list
C13_AsClaimed == io.op = "save" => FileIsCurrent

\* C13, amended: when process_tick and a save_to_disk that wrote its text
\* have returned, the state file holds the serialization of the manager's
\* executor list; a save_to_disk that failed has left the list alone and the
\* file is not the new serialization unless it already was
C13_SavedTickIsPersisted ==
    /\ (io.op = "save" /\ io.status = "saved") => FileIsCurrent
    /\ (io.op = "save" /\ io.status = "failed") =>
          /\ executors = io.before
          /\ file.kind = "torn" \/ file = io.file_before

\* the loop saved a list of two executors, the first waiting on its exit order
C13_Witness ==
    /\ io.op = "save"
    /\ io.status = "saved"
    /\ pc = "tick"
    /\ Len(file.list) = 2
    /\ file.list[1].state = PLACED_EXIT
    /\ file.list[2].state = PENDING_ENTRY

\* C14: whenever the process can die, and so after every crash, the state
\* file is a complete text: never an empty or cut-off one
C14_FileNeverTorn == file.kind # "torn"

\* C15: for every list the manager holds, the records save_to_disk writes
\* load back as executors with the same fields, and saving the loaded
\* executors writes the same records; after load_from_disk of a list file the
\* manager's executors serialize to the file's records
C15_RoundTrip ==
    /\ LoadList(get_ui_data(executors)) = executors
    /\ get_ui_data(LoadList(get_ui_data(executors))) = get_ui_data(executors)
    /\ (io.op = "load" /\ io.status = "list") =>
          /\ executors = LoadList(file.list)
          /\ get_ui_data(executors) = file.list

\* a restarted process loaded two executors, the first waiting on its exit
\* order with the entry fill price it had when it was saved
C15_Witness ==
    /\ io.op = "load"
    /\ io.status = "list"
    /\ Len(executors) = 2
    /\ executors[1].state = PLACED_EXIT
    /\ executors[1].active_order_id # None
    /\ executors[1].entry_fill_price # 0
    /\ executors[2].loop_trade

\* the file holds a non-empty list of records or a single-strategy dict
NonEmptyState(f) == (f.kind = "list" /\ f.list # <<>>) \/ f.kind = "dict"

\* the file holds a non-empty list, or a dict that names a position
ImpliesPosition(f) ==
    \/ f.kind = "list" /\ f.list # <<>>
    \/ f.kind = "dict" /\ f.dict.position # None

\* C16 as stated: with a non-empty persisted state (a non-empty list or a
\* single-strategy dict) and no position on the exchange,
\* reconcile_after_crash deletes the state file, leaves the executor list
\* empty and returns None
C16_AsClaimed ==
    (io.op = "reconcile" /\ io.pos = None /\ NonEmptyState(io.file_before)) =>
        /\ file = NoFile
        /\ executors = <<>>
        /\ io.returned = ReturnedNone

\* C16, amended: with no position on the exchange reconcile_after_crash
\* returns None; when the persisted state is a non-empty list or a dict that
\* names a position, the executor list is left empty and the state file is
\* removed, unless os.remove fails, which leaves the file as it was; any other
\* persisted state (a dict without a position among them) leaves the file
\* as it was
C16_StaleStateCleared ==
    (io.op = "reconcile" /\ io.pos = None) =>
        /\ io.returned = ReturnedNone
        /\ ImpliesPosition(io.file_before) =>
              /\ executors = <<>>
              /\ io.status \in {"removed", "remove_failed"}
              /\ io.status = "removed" => file = NoFile
              /\ io.status = "remove_failed" => file = io.file_before
        /\ ~ImpliesPosition(io.file_before) =>
              /\ io.status = "kept"
              /\ file = io.file_before

\* a restarted process found two saved executors and no position
C16_Witness ==
    /\ io.op = "reconcile"
    /\ io.pos = None
    /\ io.file_before.kind = "list"
    /\ Len(io.file_before.list) = 2
    /\ file = NoFile
    /\ executors = <<>>

\* C17: with a position on the exchange reconcile_after_crash returns a state
\* whose position is the exchange's; the other entries of a persisted dict are
\* kept in it; the executors of a persisted list are loaded and stay; the
\* state file is as it was and the executor list is not cleared
C17_ExchangePositionWins ==
    (io.op = "reconcile" /\ io.pos # None) =>
        /\ io.returned.kind = "dict"
        /\ io.returned.position = io.pos
        /\ io.file_before.kind = "dict" =>
              /\ io.returned.aux = io.file_before.dict.aux
              /\ executors = io.before
        /\ io.file_before.kind = "list" =>
              /\ executors = LoadList(io.file_before.list)
              /\ Len(executors) = Len(io.file_before.list)
        /\ io.file_before.kind \in {"absent", "torn"} => executors = io.before
        /\ file = io.file_before
        /\ io.status = "kept"

\* the persisted dict named another position than the exchange reports
C17_Witness ==
    /\ io.op = "reconcile"
    /\ io.pos # None
    /\ io.file_before.kind = "dict"
    /\ io.file_before.dict.position # None
    /\ io.file_before.dict.position # io.pos
    /\ io.returned.position = io.pos
    /\ io.returned.aux # None

\* C18: a save_to_disk whose open() or json.dump raises returns to its
\* caller; the executor list and every executor's fields are what they were,
\* the loop goes on to its next tick, and the next save that writes its text
\* leaves the file current
C18_SaveFailureSwallowed ==
    /\ io.op \in {"save", "save_state"} => io.status \in {"saved", "failed"}
    /\ (io.op \in {"save", "save_state"} /\ io.status = "failed") =>
          executors = io.before
    /\ (io.op = "save" /\ io.status = "failed") => pc = "tick"
    /\ (io.op = "save" /\ io.after_failure /\ io.status = "saved") => FileIsCurrent

\* the save after a failed one wrote the list a tick had advanced meanwhile
C18_Witness ==
    /\ io.op = "save"
    /\ io.after_failure
    /\ io.status = "saved"
    /\ file.list # <<>>
    /\ file.list[1].state # PENDING_ENTRY

(***************************************************************************)
(* Progress of the polling loop, checked under SpecFair.                   *)
(***************************************************************************)
\* every executor of the list is a looping one
NoNonLooping(exs) == \A i \in 1..Len(exs) : exs[i].loop_trade

\* the run has used up its order ids
IdsExhausted == nextId > MaxOrders

\* in the last tick every executor that waited on an order stayed as it was,
\* in every field, or saw the order resolved and left its PLACED state
StuckWaits ==
    tick.status = "done" =>
        \A i \in 1..Len(tick.before) :
            tick.before[i].state \in {PLACED_ENTRY, PLACED_EXIT} =>
                \/ tick.cycled[i] = tick.before[i]
                \/ tick.cycled[i].state \notin {PLACED_ENTRY, PLACED_EXIT}

\* C20: an executor that holds an order stays as it is, tick after tick,
\* until a tick's snapshot resolves the order; and if ticks keep occurring,
\* submissions are accepted in the end and held orders are reported Filled
\* in the end, then the loop reaches a list without non-looping executors:
\* each of them reached COMPLETED and was dropped (or the run's order ids
\* are used up)
C20_StuckWaitsThenCompletes ==
    /\ []StuckWaits
    /\ (pc = "loop") ~> (NoNonLooping(executors) \/ IdsExhausted)

\* a tick saw the exit order of the only, non-looping, executor filled; the
\* executor is gone from the list
C20_Witness ==
    /\ pc = "loop"
    /\ tick.status = "done"
    /\ Len(tick.before) = 1
    /\ ~tick.before[1].loop_trade
    /\ tick.before[1].state = PLACED_EXIT
    /\ tick.cycled[1].state = COMPLETED
    /\ executors = <<>>
    /\ ~IdsExhausted

(***************************************************************************)
(* The fill simulator: BacktestContext (core/context.py). Its operations   *)
(* are functions from a context to the context after the call and the      *)
(* value returned; the log lines it prints are left out.                   *)
(***************************************************************************)
\* bounds of the simulator's runs: the orders accepted in one run, and the
\* candles of a backtest
MaxTrades == 2
MaxBars == 4

\* the timestamps update_state is called with
Times == {1}
\* the closes of the candles: one price, which the orders' prices lie below,
\* at and above
Closes == {2}
\* the candles update_state is called with; a candle's close lies in its range
SimCandles ==
    {c \in [high : SimPrices, low : SimPrices, close : Closes, timestamp : Times] :
        c.low <= c.close /\ c.close <= c.high}

\* a call that changed nothing and returned None
Rejected(c) == [ctx |-> c, returned |-> "None"]

\* an entry of self._pending_orders
PendingOrder(side, qty, price, post_only, reduce_only) ==
    [side |-> side, qty |-> qty, price |-> price,
     post_only |-> post_only, reduce_only |-> reduce_only]

\* an entry of self.trades; a Buy has a qty, a Close has a pnl
TradeRecord(type, price, qty, pnl, time) ==
    [type |-> type, price |-> price, qty |-> qty, pnl |-> pnl, time |-> time]

\* raw_pnl of a position closed at exit_price; (exit_price - entry) * qty is
\* computed from entry * qty, which the model keeps in place of entry_price
raw_pnl(position, exit_price) ==
    IF position.side = "Buy"
    THEN (exit_price * position.qty - position.entry_notional) * Unit
    ELSE (position.entry_notional - exit_price * position.qty) * Unit

\* the PnL of a position closed at exit_price, with no fee taken
net_pnl_NoFee(c, exit_price) == raw_pnl(c.position, exit_price)

\* net_pnl of a position closed at exit_price
net_pnl(c, exit_price) ==
    raw_pnl(c.position, exit_price) - (c.position.qty * exit_price) * c.fee_rate

\* a close that drops the position and keeps its margin
close_position_KeepsMargin(c, exit_price) ==
    IF c.position = NoPosition
    THEN c
    ELSE [c EXCEPT !.balance = c.balance + net_pnl(c, exit_price),
                   !.trades = Append(c.trades,
                                     TradeRecord("Close", exit_price, None,
                                                 net_pnl(c, exit_price), c.current_time)),
                   !.position = NoPosition]

\* BacktestContext._close_position
close_position(c, exit_price) ==
    IF c.position = NoPosition
    THEN c
    ELSE [c EXCEPT !.balance = c.balance + c.position.margin_used + net_pnl(c, exit_price),
                   !.trades = Append(c.trades,
                                     TradeRecord("Close", exit_price, None,
                                                 net_pnl(c, exit_price), c.current_time)),
                   !.position = NoPosition]

\* required_margin of an order
required_margin(c, qty, exec_price) == (qty * exec_price * Unit) \div c.leverage

\* the cost of an order without its fee
total_cost_MarginOnly(c, qty, exec_price) == required_margin(c, qty, exec_price)

\* total_cost of an order: required_margin + fee
total_cost(c, qty, exec_price) ==
    required_margin(c, qty, exec_price) + (qty * exec_price) * c.fee_rate

\* the position after a buy: a new long, or the held one grown
PositionAfterBuy(c, position, qty, exec_price) ==
    IF position = NoPosition
    THEN [side |-> "Buy", qty |-> qty, entry_notional |-> qty * exec_price,
          margin_used |-> required_margin(c, qty, exec_price)]
    ELSE [position EXCEPT !.qty = position.qty + qty,
                          !.entry_notional = position.entry_notional + qty * exec_price,
                          !.margin_used = position.margin_used
                                          + required_margin(c, qty, exec_price)]

\* BacktestContext._execute_buy
execute_buy(c, qty, exec_price, reduce_only) ==
    IF c.balance < total_cost(c, qty, exec_price)
    THEN Rejected(c)
    ELSE LET closed == IF c.position.side = "Sell"
                       THEN close_position(c, exec_price)
                       ELSE c
         IN IF c.position.side = "Sell" /\ reduce_only
            THEN [ctx |-> closed, returned |-> "BT_CLOSE"]
            ELSE [ctx |-> [closed EXCEPT
                             !.position = PositionAfterBuy(c, closed.position, qty, exec_price),
                             !.balance = closed.balance - total_cost(c, qty, exec_price),
                             !.trades = Append(closed.trades,
                                               TradeRecord("Buy", exec_price, qty, None,
                                                           c.current_time))],
                  returned |-> "BT_ID"]

\* a sell smaller than the long leaves the rest of it open
execute_sell_KeepsRest(c, qty, exec_price, reduce_only) ==
    IF c.position.side = "Buy"
    THEN IF qty < c.position.qty
         THEN [ctx |-> [close_position(c, exec_price) EXCEPT
                           !.position = [c.position EXCEPT !.qty = c.position.qty - qty]],
               returned |-> "BT_ID"]
         ELSE [ctx |-> close_position(c, exec_price), returned |-> "BT_ID"]
    ELSE Rejected(c)

\* BacktestContext._execute_sell
execute_sell(c, qty, exec_price, reduce_only) ==
    IF c.position.side = "Buy"
    THEN [ctx |-> close_position(c, exec_price), returned |-> "BT_ID"]
    ELSE Rejected(c)

\* the price an immediate execution takes: price if price else current_price
ExecPrice(c, price) == IF price # None THEN price ELSE c.current_price

\* a post-only order that would take: rejected only at a price beyond the
\* current one
PostOnlyCrosses_Beyond(side, post_only, price, current_price) ==
    /\ post_only
    /\ price # None
    /\ IF side = "Buy" THEN price > current_price ELSE price < current_price

\* the post-only check: a post-only order with a price at or beyond the
\* current one would take
PostOnlyCrosses(side, post_only, price, current_price) ==
    /\ post_only
    /\ price # None
    /\ IF side = "Buy" THEN price >= current_price ELSE price <= current_price

\* the reduce-only check passes every order
NothingToReduce_Never(side, reduce_only, position) == FALSE

\* the reduce-only check: a reduce-only order with no position of the
\* other side to reduce
NothingToReduce(side, reduce_only, position) ==
    /\ reduce_only
    /\ position.side # (IF side = "Buy" THEN "Sell" ELSE "Buy")

\* BacktestContext.buy
buy_result(c, qty, price, post_only, reduce_only) ==
    IF PostOnlyCrosses("Buy", post_only, price, c.current_price)
    THEN Rejected(c)
    ELSE IF NothingToReduce("Buy", reduce_only, c.position)
    THEN Rejected(c)
    ELSE IF price # None /\ price < c.current_price
    THEN [ctx |-> [c EXCEPT !.pending_orders =
                       Append(c.pending_orders,
                              PendingOrder("Buy", qty, price, post_only, reduce_only))],
          returned |-> "BT_PENDING"]
    ELSE execute_buy(c, qty, ExecPrice(c, price), reduce_only)

\* BacktestContext.sell
sell_result(c, qty, price, post_only, reduce_only) ==
    IF PostOnlyCrosses("Sell", post_only, price, c.current_price)
    THEN Rejected(c)
    ELSE IF NothingToReduce("Sell", reduce_only, c.position)
    THEN Rejected(c)
    ELSE IF price # None /\ price > c.current_price
    THEN [ctx |-> [c EXCEPT !.pending_orders =
                       Append(c.pending_orders,
                              PendingOrder("Sell", qty, price, post_only, reduce_only))],
          returned |-> "BT_PENDING"]
    ELSE execute_sell(c, qty, ExecPrice(c, price), reduce_only)

\* the index list.remove(x) deletes: the first entry equal to x
FirstIndex(list, x) == CHOOSE j \in 1..Len(list) :
                          /\ list[j] = x
                          /\ \A k \in 1..(j - 1) : list[k] # x

\* the list without its entry j
RemoveAt(list, j) == [k \in 1..(Len(list) - 1) |-> IF k < j THEN list[k] ELSE list[k + 1]]

\* the candle goes through the order's limit price
Touches_Through(order, candle) ==
    \/ order.side = "Buy" /\ candle.low < order.price
    \/ order.side = "Sell" /\ candle.high > order.price

\* the candle reaches the order's limit price
Touches(order, candle) ==
    \/ order.side = "Buy" /\ candle.low <= order.price
    \/ order.side = "Sell" /\ candle.high >= order.price

\* the execution of a resting order at the price of the step
FillOrder_AtClose(c, order) ==
    IF order.side = "Buy"
    THEN execute_buy(c, order.qty, c.current_price, order.reduce_only).ctx
    ELSE execute_sell(c, order.qty, c.current_price, order.reduce_only).ctx

\* the execution of a resting order at its own limit price
FillOrder(c, order) ==
    IF order.side = "Buy"
    THEN execute_buy(c, order.qty, order.price, order.reduce_only).ctx
    ELSE execute_sell(c, order.qty, order.price, order.reduce_only).ctx

\* BacktestContext._check_pending_orders from entry k of the copy it iterates
\* over; queued_at runs beside the book and says at which step of a backtest
\* each resting order was queued
RECURSIVE check_pending_orders(_, _, _, _, _)
\* a reached order whose execution was rejected stays in the book
check_pending_orders_KeepsFailed(c, queued_at, copy, k, candle) ==
    IF k > Len(copy)
    THEN [ctx |-> c, queued_at |-> queued_at]
    ELSE IF Touches(copy[k], candle) /\ FillOrder(c, copy[k]) # c
    THEN check_pending_orders(
             [FillOrder(c, copy[k]) EXCEPT
                !.pending_orders = RemoveAt(c.pending_orders,
                                            FirstIndex(c.pending_orders, copy[k]))],
             RemoveAt(queued_at, FirstIndex(c.pending_orders, copy[k])),
             copy, k + 1, candle)
    ELSE check_pending_orders(c, queued_at, copy, k + 1, candle)

check_pending_orders(c, queued_at, copy, k, candle) ==
    IF k > Len(copy)
    THEN [ctx |-> c, queued_at |-> queued_at]
    ELSE IF Touches(copy[k], candle)
    THEN check_pending_orders(
             [FillOrder(c, copy[k]) EXCEPT
                !.pending_orders = RemoveAt(c.pending_orders,
                                            FirstIndex(c.pending_orders, copy[k]))],
             RemoveAt(queued_at, FirstIndex(c.pending_orders, copy[k])),
             copy, k + 1, candle)
    ELSE check_pending_orders(c, queued_at, copy, k + 1, candle)

\* BacktestContext.update_state
update_state_result(c, queued_at, price, time, candle) ==
    IF candle # NoCandle
    THEN check_pending_orders([c EXCEPT !.current_price = price, !.current_time = time],
                              queued_at, c.pending_orders, 1, candle)
    ELSE [ctx |-> [c EXCEPT !.current_price = price, !.current_time = time],
          queued_at |-> queued_at]

\* what is remembered of the long the context holds, after a call of buy or
\* sell that returned r
Opened(before, opened, r, qty, price) ==
    IF r.ctx.position = NoPosition
    THEN NoOpened
    ELSE IF r.ctx.position = before.position
    THEN opened
    ELSE IF before.position = NoPosition
    THEN [by |-> "single", balance_before |-> before.balance, qty |-> qty, price |-> price]
    ELSE [opened EXCEPT !.by = "mixed"]

\* the record of a call of buy or sell
OrderCall(op, qty, price, post_only, reduce_only, r) ==
    [op |-> op, qty |-> qty, price |-> price, post_only |-> post_only,
     reduce_only |-> reduce_only, candle |-> NoCandle, returned |-> r.returned,
     before |-> ctx,
     opened |-> IF r.ctx.position = NoPosition /\ ctx.position # NoPosition
                THEN sim.opened
                ELSE Opened(ctx, sim.opened, r, qty, ExecPrice(ctx, price))]

\* the caller of buy and sell: the context's methods called in any order
\* ("calls"), or the decision logic of a backtest ("decide"); a run accepts
\* MaxTrades orders
OrderCaller(r) ==
    /\ bt.at \in {"calls", "decide"}
    /\ Len(ctx.trades) + Len(ctx.pending_orders) < MaxTrades
    /\ bt' = IF r.returned = "BT_PENDING"
             THEN [bt EXCEPT !.queued_at = Append(bt.queued_at, bt.i)]
             ELSE bt

\* a call of buy
buy ==
    /\ \E qty \in SimQtys, price \in {None} \cup SimPrices,
          post_only \in BOOLEAN, reduce_only \in BOOLEAN :
          \E r \in {buy_result(ctx, qty, price, post_only, reduce_only)} :
             /\ ctx' = r.ctx
             /\ sim' = OrderCall("buy", qty, price, post_only, reduce_only, r)
             /\ OrderCaller(r)
    /\ UNCHANGED <<ex, nextId, last, managerVars, persistVars, legacy>>

\* a call of sell
sell ==
    /\ \E qty \in SimQtys, price \in {None} \cup SimPrices,
          post_only \in BOOLEAN, reduce_only \in BOOLEAN :
          \E r \in {sell_result(ctx, qty, price, post_only, reduce_only)} :
             /\ ctx' = r.ctx
             /\ sim' = OrderCall("sell", qty, price, post_only, reduce_only, r)
             /\ OrderCaller(r)
    /\ UNCHANGED <<ex, nextId, last, managerVars, persistVars, legacy>>

\* BacktestContext.set_leverage
set_leverage ==
    /\ bt.at = "calls"
    /\ \E leverage \in Leverages :
          /\ leverage # ctx.leverage
          /\ ctx' = [ctx EXCEPT !.leverage = leverage]
    /\ sim' = [NoSim EXCEPT !.op = "set_leverage", !.before = ctx, !.opened = sim.opened]
    /\ UNCHANGED <<ex, nextId, last, managerVars, persistVars, legacy, bt>>

\* a call of update_state, as the backtester makes it (the candle's close and
\* timestamp as price and time) or without a candle
update_state ==
    /\ bt.at = "calls"
    /\ \E c \in SimCandles, candle_given \in BOOLEAN :
          \E r \in {update_state_result(ctx, bt.queued_at, c.close, c.timestamp,
                                        IF candle_given THEN c ELSE NoCandle)} :
             /\ ctx' = r.ctx
             /\ bt' = [bt EXCEPT !.queued_at = r.queued_at]
             /\ sim' = [NoSim EXCEPT !.op = "update_state", !.price = c.close,
                                     !.candle = IF candle_given THEN c ELSE NoCandle,
                                     !.before = ctx,
                                     !.opened = IF r.ctx.position = ctx.position
                                                THEN sim.opened
                                                ELSE IF r.ctx.position = NoPosition
                                                THEN sim.opened
                                                ELSE [sim.opened EXCEPT !.by = "mixed"]]
    /\ UNCHANGED <<ex, nextId, last, managerVars, persistVars, legacy>>

\* a context has been built and its methods are called in any order
InitSim ==
    /\ manager = NewManager(0, 0)
    /\ executors = <<>>
    /\ tick = NoTick
    /\ nextId = 1
    /\ ex = NewExecutor(2, 3, 2, 0, 0, FALSE)
    /\ last = NoCallRecord(ex)
    /\ file = NoFile
    /\ pc = "calls"
    /\ io = NoIo
    /\ \E initial_balance \in InitialBalances, fee_rate \in FeeRates :
          ctx = NewContext(initial_balance, fee_rate)
    /\ sim = NoSim
    /\ legacy = NoLegacy
    /\ bt = [NoRun EXCEPT !.at = "calls"]

NextSim ==
    \/ buy
    \/ sell
    \/ set_leverage
    \/ update_state

SpecSim == InitSim /\ [][NextSim]_vars

(***************************************************************************)
(* The bar loop: BacktestEngine.run (core/backtester.py). Bar k of the     *)
(* series (k counted from 0, as the code does) is df[k + 1] and carries    *)
(* the timestamp k + 1. The indicator columns, which are computed from     *)
(* earlier bars only, are left out. The decision logic is any sequence of  *)
(* calls of buy and sell on the context.                                   *)
(***************************************************************************)
\* warmup_period, 50 in the code, scaled to the series of the model
warmup_period == 2

\* the shapes of the bars: one that closes at 2 and reaches 1 and 3, one that
\* stays at 3
BarShapes == {[high |-> 3, low |-> 1, close |-> 2], [high |-> 3, low |-> 3, close |-> 3]}

\* the series of n bars; the warm-up bars, which the loop never reads, all
\* have one shape
Series(n) ==
    {[k \in 1..n |-> [high |-> f[k].high, low |-> f[k].low,
                      close |-> f[k].close, timestamp |-> k]] :
        f \in {g \in [1..n -> BarShapes] :
                  \A k \in 1..n : k <= warmup_period => g[k].close = 2}}

\* df.iloc[i], i counted from 0
Bar(df, i) == df[i + 1]

\* the whole series
current_slice_Whole(df, i) == df

\* current_slice = full_data.iloc[:i+1]
current_slice(df, i) == SubSeq(df, 1, i + 1)

\* current_candle = current_slice.iloc[-1]
current_candle(df, i) == current_slice(df, i)[Len(current_slice(df, i))]

\* the balance _generate_report takes as the start of the run: the literal
\* 10000 of the source, which is also the default of the constructor's
\* initial_balance, on the scale of InitialBalances
initial == 6

\* the initial balances a BacktestEngine is constructed with: the default
\* and one other
EngineBalances == {initial - 1, initial}

\* BacktestEngine._generate_report; money in units of 1/Unit, roi as the
\* fraction num/den
generate_report(c) ==
    [kind |-> "report",
     initial_balance |-> initial * Unit,
     final_balance |-> c.balance,
     roi |-> [num |-> (c.balance - initial * Unit) * 100, den |-> initial * Unit],
     total_trades |-> Len(c.trades)]

\* the loop starts one bar before the end of the warm-up
first_index_Early == warmup_period - 1

\* the first index of range(warmup_period, total_candles)
first_index == warmup_period

\* one pass of the loop up to the call of on_candle_tick: the slice is cut,
\* the context is advanced with the slice's last candle, and the decision
\* logic is invoked with the slice
run_step ==
    /\ bt.at = "loop"
    /\ bt.i < Len(bt.df)
    /\ \E r \in {update_state_result(ctx, bt.queued_at,
                                     current_candle(bt.df, bt.i).close,
                                     current_candle(bt.df, bt.i).timestamp,
                                     current_candle(bt.df, bt.i))} :
          /\ ctx' = r.ctx
          /\ bt' = [bt EXCEPT !.at = "decide",
                              !.queued_at = r.queued_at,
                              !.shown = current_slice(bt.df, bt.i),
                              !.advanced = Append(bt.advanced, bt.i),
                              !.ticked = Append(bt.ticked, bt.i),
                              !.examined = bt.queued_at]
          /\ sim' = [NoSim EXCEPT !.op = "update_state",
                                  !.price = current_candle(bt.df, bt.i).close,
                                  !.candle = current_candle(bt.df, bt.i),
                                  !.before = ctx]
    /\ UNCHANGED <<ex, nextId, last, managerVars, persistVars, legacy>>

\* on_candle_tick returns and the loop goes to the next index
on_candle_tick_returns ==
    /\ bt.at = "decide"
    /\ bt' = [bt EXCEPT !.at = "loop", !.i = bt.i + 1]
    /\ UNCHANGED <<ex, nextId, last, managerVars, persistVars, legacy, ctx, sim>>

\* the loop is over and run returns its report
run_returns ==
    /\ bt.at = "loop"
    /\ bt.i >= Len(bt.df)
    /\ bt' = [bt EXCEPT !.at = "done",
                        !.report = IF bt.df = <<>>
                                   THEN [NoReport EXCEPT !.kind = "error"]
                                   ELSE generate_report(ctx)]
    /\ UNCHANGED <<ex, nextId, last, managerVars, persistVars, legacy, ctx, sim>>

\* BacktestEngine.__init__ and the entry of run with a series df
InitBacktest ==
    /\ manager = NewManager(0, 0)
    /\ executors = <<>>
    /\ tick = NoTick
    /\ nextId = 1
    /\ ex = NewExecutor(2, 3, 2, 0, 0, FALSE)
    /\ last = NoCallRecord(ex)
    /\ file = NoFile
    /\ pc = "calls"
    /\ io = NoIo
    /\ sim = NoSim
    /\ legacy = NoLegacy
    /\ \E initial_balance \in EngineBalances, fee_rate \in FeeRates :
          /\ ctx = NewContext(initial_balance, fee_rate)
          /\ \E n \in 0..MaxBars : \E df \in Series(n) :
                bt = [NoRun EXCEPT !.df = df, !.i = first_index, !.at = "loop",
                                   !.initial_balance = initial_balance]

NextBacktest ==
    \/ run_step
    \/ buy
    \/ sell
    \/ on_candle_tick_returns
    \/ run_returns

SpecBacktest == InitBacktest /\ [][NextBacktest]_vars

(***************************************************************************)
(* Properties of the fill simulator, checked under SpecSim.                *)
(***************************************************************************)
\* the last call was buy or sell and left the context as it was
NothingChanged == ctx = sim.before

\* C21: a post-only buy with a limit price at or above the current price, and
\* a post-only sell with a limit price at or below it, returns None and
\* leaves balance, position, pending orders and trade log as they were
C21_PostOnlyTakerRejected ==
    (/\ sim.op \in {"buy", "sell"}
     /\ sim.post_only
     /\ sim.price # None
     /\ \/ sim.op = "buy" /\ sim.price >= sim.before.current_price
        \/ sim.op = "sell" /\ sim.price <= sim.before.current_price)
    => /\ sim.returned = "None"
       /\ ctx.balance = sim.before.balance
       /\ ctx.position = sim.before.position
       /\ ctx.pending_orders = sim.before.pending_orders
       /\ ctx.trades = sim.before.trades

\* a post-only buy at the current price, which the balance would have paid
\* for, was rejected
C21_Witness ==
    /\ sim.op = "buy"
    /\ sim.post_only
    /\ ~sim.reduce_only
    /\ sim.before.current_price = 2
    /\ sim.price = 2
    /\ sim.qty = 1
    /\ sim.before.balance = 6 * Unit
    /\ sim.returned = "None"

\* C22: a reduce-only sell issued while no long is open returns None at
\* every price, queues nothing and changes nothing
C22_ReduceOnlySellNeedsLong ==
    (/\ sim.op = "sell"
     /\ sim.reduce_only
     /\ sim.before.position.side # "Buy")
    => /\ sim.returned = "None"
       /\ ctx.pending_orders = sim.before.pending_orders
       /\ NothingChanged

\* a reduce-only sell above the current price, which would have rested in
\* the book, was rejected for want of a long
C22_Witness ==
    /\ sim.op = "sell"
    /\ sim.reduce_only
    /\ ~sim.post_only
    /\ sim.before.position = NoPosition
    /\ sim.before.current_price = 2
    /\ sim.price = 3
    /\ sim.returned = "None"

\* the trade records the last call appended
NewTrades == SubSeq(ctx.trades, Len(sim.before.trades) + 1, Len(ctx.trades))

\* the number of entries of a list equal to x
Count(list, x) == Cardinality({k \in 1..Len(list) : list[k] = x})

\* C23: a limit buy below the current price that no check rejects returns the
\* pending marker and only joins the book; a resting buy leaves the book
\* only in an update_state whose candle's low is at or below its price, and
\* every buy such a step records is at the limit price of a resting buy the
\* candle reached
C23_LimitBuyRestsUntilTouched ==
    /\ (/\ sim.op = "buy"
        /\ sim.price # None
        /\ sim.price < sim.before.current_price
        /\ ~(sim.reduce_only /\ sim.before.position.side # "Sell"))
       => /\ sim.returned = "BT_PENDING"
          /\ ctx = [sim.before EXCEPT !.pending_orders =
                       Append(sim.before.pending_orders,
                              PendingOrder("Buy", sim.qty, sim.price,
                                           sim.post_only, sim.reduce_only))]
    /\ \A k \in 1..Len(sim.before.pending_orders) :
          LET order == sim.before.pending_orders[k]
          IN (/\ order.side = "Buy"
              /\ ~(/\ sim.op = "update_state"
                   /\ sim.candle # NoCandle
                   /\ sim.candle.low <= order.price))
             => Count(ctx.pending_orders, order) >= Count(sim.before.pending_orders, order)
    /\ sim.op = "update_state" =>
          \A t \in 1..Len(NewTrades) :
             NewTrades[t].type = "Buy" =>
                \E j \in 1..Len(sim.before.pending_orders) :
                   LET order == sim.before.pending_orders[j]
                   IN /\ order.side = "Buy"
                      /\ sim.candle # NoCandle
                      /\ sim.candle.low <= order.price
                      /\ NewTrades[t].price = order.price
                      /\ NewTrades[t].qty = order.qty

\* a buy resting at 1 was filled at 1 by a candle that closed at 2 with its
\* low at 1
C23_Witness ==
    /\ sim.op = "update_state"
    /\ sim.candle # NoCandle
    /\ sim.candle.low = 1
    /\ sim.candle.close = 2
    /\ Len(sim.before.pending_orders) = 1
    /\ sim.before.pending_orders[1].side = "Buy"
    /\ sim.before.pending_orders[1].price = 1
    /\ sim.before.position = NoPosition
    /\ ctx.pending_orders = <<>>
    /\ Len(NewTrades) = 1
    /\ NewTrades[1].type = "Buy"
    /\ NewTrades[1].price = 1
    /\ ctx.position.side = "Buy"

\* the candle of the last update_state does not reach the order
Untouched(order) ==
    ~(\/ order.side = "Buy" /\ order.price >= sim.candle.low
      \/ order.side = "Sell" /\ order.price <= sim.candle.high)

\* C24: an update_state with a candle leaves in the book exactly the resting
\* orders the candle does not reach (a buy below its low, a sell above its
\* high), in their order and unchanged; an update_state without a candle
\* leaves book, balance, position and trade log as they were
C24_TouchedOrdersLeaveBook ==
    sim.op = "update_state" =>
       IF sim.candle # NoCandle
       THEN ctx.pending_orders = SelectSeq(sim.before.pending_orders, Untouched)
       ELSE /\ ctx.pending_orders = sim.before.pending_orders
            /\ ctx.balance = sim.before.balance
            /\ ctx.position = sim.before.position
            /\ ctx.trades = sim.before.trades

\* a candle with its low at 1 and its high at 2 took the buy resting at 1 out
\* of the book and left the sell resting at 3
C24_Witness ==
    /\ sim.op = "update_state"
    /\ sim.candle # NoCandle
    /\ sim.candle.low = 1
    /\ sim.candle.high = 2
    /\ Len(sim.before.pending_orders) = 2
    /\ sim.before.pending_orders[1].side = "Buy"
    /\ sim.before.pending_orders[1].price = 1
    /\ sim.before.pending_orders[2].side = "Sell"
    /\ sim.before.pending_orders[2].price = 3
    /\ ctx.pending_orders = <<sim.before.pending_orders[2]>>

\* the last call was a sell that closed, at a higher price, a long that one
\* buy of the same quantity had opened from no position
BoughtThenSoldHigher ==
    /\ sim.op = "sell"
    /\ sim.returned = "BT_ID"
    /\ sim.opened.by = "single"
    /\ sim.opened.qty = sim.qty
    /\ ExecPrice(sim.before, sim.price) > sim.opened.price

\* (exit - entry) * q - (q * exit) * fee_rate of that buy and sell
RoundTripNetPnl ==
    (ExecPrice(sim.before, sim.price) - sim.opened.price) * sim.qty * Unit
    - (sim.qty * ExecPrice(sim.before, sim.price)) * ctx.fee_rate

\* C25 as claimed: after a buy of q at entry and a sell of q at a higher exit,
\* the balance is the balance before the buy plus net_pnl
C25_AsClaimed ==
    BoughtThenSoldHigher => ctx.balance = sim.opened.balance_before + RoundTripNetPnl

\* C25: after a buy of q at entry and a sell of q at a higher exit, the
\* balance is the balance before the buy plus net_pnl less the fee of the
\* buy, (q * entry) * fee_rate; the margin the buy locked is back in full
C25_RoundTripLessEntryFee ==
    BoughtThenSoldHigher =>
       /\ ctx.balance = sim.opened.balance_before + RoundTripNetPnl
                        - (sim.opened.qty * sim.opened.price) * ctx.fee_rate
       /\ ctx.position = NoPosition

\* a long of 2 bought at 1 was sold at 2
C25_Witness ==
    /\ BoughtThenSoldHigher
    /\ sim.qty = 2
    /\ sim.opened.price = 1
    /\ ExecPrice(sim.before, sim.price) = 2
    /\ ctx.fee_rate > 0

\* margin + fee of the last order at the price it would execute at
OrderCost ==
    (sim.qty * ExecPrice(sim.before, sim.price) * Unit) \div sim.before.leverage
    + (sim.qty * ExecPrice(sim.before, sim.price)) * sim.before.fee_rate

\* the last call was a sell that no check rejected and that did not rest in
\* the book, made with no long open and a balance that covers its cost
ImmediateSellWithoutLong ==
    /\ sim.op = "sell"
    /\ ~sim.reduce_only
    /\ ~(sim.post_only /\ sim.price # None /\ sim.price <= sim.before.current_price)
    /\ ~(sim.price # None /\ sim.price > sim.before.current_price)
    /\ sim.before.position.side # "Buy"
    /\ sim.before.balance >= OrderCost

\* C26: a sell that executes at once with no long open opens a short of its
\* quantity, locks its margin, takes margin and fee from the balance and
\* appends a trade record, as buy does for a long
C26_SellOpensShort ==
    ImmediateSellWithoutLong =>
       /\ sim.returned = "BT_ID"
       /\ ctx.position.side = "Sell"
       /\ ctx.position.qty = sim.qty
       /\ ctx.position.margin_used = OrderCost - (sim.qty * ExecPrice(sim.before, sim.price))
                                                 * sim.before.fee_rate
       /\ ctx.balance = sim.before.balance - OrderCost
       /\ Len(ctx.trades) = Len(sim.before.trades) + 1

\* the last call was a buy that no check rejected and that did not rest in
\* the book
ImmediateBuy ==
    /\ sim.op = "buy"
    /\ ~(sim.post_only /\ sim.price # None /\ sim.price >= sim.before.current_price)
    /\ ~(sim.reduce_only /\ sim.before.position.side # "Sell")
    /\ ~(sim.price # None /\ sim.price < sim.before.current_price)

\* C27: an immediately executing buy whose margin + fee exceeds the balance
\* returns None and changes nothing; one that executes takes exactly
\* margin + fee, and no call that records a buy leaves the balance negative
C27_BuyNeverOverdraws ==
    /\ (ImmediateBuy /\ OrderCost > sim.before.balance)
       => (sim.returned = "None" /\ NothingChanged)
    /\ (ImmediateBuy /\ OrderCost <= sim.before.balance)
       => /\ sim.returned = "BT_ID"
          /\ ctx.balance = sim.before.balance - OrderCost
    /\ (\E t \in 1..Len(NewTrades) : NewTrades[t].type = "Buy") => ctx.balance >= 0

\* a buy of 2 at 3 without leverage, which costs more than the balance of 6,
\* was rejected
C27_Witness ==
    /\ ImmediateBuy
    /\ sim.qty = 2
    /\ sim.price = 3
    /\ sim.before.leverage = 1
    /\ sim.before.balance = 6 * Unit
    /\ OrderCost > sim.before.balance
    /\ sim.returned = "None"

RECURSIVE SumPnl(_)
\* the PnL of the Close records of a trade log
SumPnl(trades) ==
    IF trades = <<>>
    THEN 0
    ELSE SumPnl(Tail(trades)) + (IF Head(trades).type = "Close" THEN Head(trades).pnl ELSE 0)

RECURSIVE SumBuyFees(_, _)
\* the fees of the Buy records of a trade log
SumBuyFees(trades, fee_rate) ==
    IF trades = <<>>
    THEN 0
    ELSE SumBuyFees(Tail(trades), fee_rate)
         + (IF Head(trades).type = "Buy"
            THEN (Head(trades).qty * Head(trades).price) * fee_rate
            ELSE 0)

\* C28: the position is absent or has a quantity and a margin that are not
\* negative; the position is absent exactly when the trade log is empty or
\* ends with a Close record, and the balance plus the margin of the open
\* position is the initial balance plus the PnL of every Close record less
\* the fee of every Buy record: a close returns the margin, books the PnL
\* and drops the position in one step
C28_PositionSoundClosingAtomic ==
    /\ ctx.position # NoPosition =>
          /\ ctx.position.side = "Buy"
          /\ ctx.position.qty >= 0
          /\ ctx.position.margin_used >= 0
    /\ ctx.position = NoPosition <=>
          (ctx.trades = <<>> \/ ctx.trades[Len(ctx.trades)].type = "Close")
    /\ \E initial_balance \in InitialBalances :
          ctx.balance + ctx.position.margin_used
             = initial_balance * Unit + SumPnl(ctx.trades)
               - SumBuyFees(ctx.trades, ctx.fee_rate)

\* a sell has just closed a leveraged long: the Close record, the absent
\* position and the credited balance appear together
C28_Witness ==
    /\ sim.op = "sell"
    /\ sim.before.position.side = "Buy"
    /\ sim.before.position.margin_used > 0
    /\ sim.before.position.margin_used < sim.before.position.entry_notional * Unit
    /\ ctx.position = NoPosition
    /\ ctx.trades[Len(ctx.trades)].type = "Close"
    /\ ctx.balance # sim.before.balance

(***************************************************************************)
(* Properties of the bar loop, checked under SpecBacktest.                 *)
(***************************************************************************)
\* the index of the bar the context was last advanced with
LastAdvanced == IF bt.at = "decide" THEN bt.i ELSE bt.i - 1

\* C29: whenever the decision logic runs, at a step i from the warm-up length
\* to the last bar, the series it was passed has length i + 1, holds the
\* bars 0..i and ends with bar i, and the context's current price and time
\* are bar i's close and timestamp; the candle an advance matches against is
\* the bar of its own step, never a later one
C29_NoLookAhead ==
    /\ bt.at = "decide" =>
          /\ bt.i >= warmup_period
          /\ bt.i < Len(bt.df)
          /\ Len(bt.shown) = bt.i + 1
          /\ \A k \in 1..Len(bt.shown) : bt.shown[k] = bt.df[k]
          /\ bt.shown[Len(bt.shown)] = Bar(bt.df, bt.i)
          /\ ctx.current_price = Bar(bt.df, bt.i).close
          /\ ctx.current_time = Bar(bt.df, bt.i).timestamp
    /\ sim.op = "update_state" =>
          /\ sim.candle = Bar(bt.df, LastAdvanced)
          /\ sim.candle.timestamp <= LastAdvanced + 1

\* the decision logic runs at the first step after the warm-up of a series
\* with one more bar to come, which differs from the current one
C29_Witness ==
    /\ bt.at = "decide"
    /\ bt.i = warmup_period
    /\ Len(bt.df) = bt.i + 2
    /\ Bar(bt.df, bt.i + 1).close # Bar(bt.df, bt.i).close
    /\ Len(bt.shown) = bt.i + 1

\* the indices from the end of the warm-up on, n of them
StepsFromWarmup(n) == [k \in 1..n |-> warmup_period + k - 1]

\* C30: the context is advanced and the decision logic is invoked once for
\* each bar from the end of the warm-up on, in increasing order and for no
\* warm-up bar, the advance coming first; every order an advance examines
\* was queued at an earlier step, and the advance of a step examines the
\* whole book the step before left, so an order queued at step i is first
\* matched against bar i + 1
C30_AdvanceThenDecideOncePerBar ==
    /\ bt.advanced = StepsFromWarmup(Len(bt.advanced))
    /\ bt.ticked = bt.advanced
    /\ Len(bt.ticked) = (IF bt.at = "decide" THEN bt.i + 1 ELSE bt.i) - warmup_period
    /\ bt.at = "done" =>
          Len(bt.ticked) = (IF Len(bt.df) > warmup_period
                            THEN Len(bt.df) - warmup_period ELSE 0)
    /\ bt.at = "decide" => ctx.current_time = Bar(bt.df, bt.i).timestamp
    /\ \A k \in 1..Len(bt.examined) :
          /\ bt.examined[k] >= warmup_period
          /\ bt.examined[k] < LastAdvanced
    /\ \A k \in 1..Len(bt.queued_at) : bt.queued_at[k] <= bt.i
    /\ Len(bt.queued_at) = Len(ctx.pending_orders)
    /\ (bt.at = "decide" /\ sim.op = "update_state") =>
          Len(bt.examined) = Len(sim.before.pending_orders)

\* a buy queued at 1 by the decision logic of the first step, whose bar had
\* its low at 1, was examined and filled by the advance of the next step
C30_Witness ==
    /\ bt.at = "decide"
    /\ bt.i = warmup_period + 1
    /\ sim.op = "update_state"
    /\ bt.examined = <<warmup_period>>
    /\ sim.before.pending_orders[1].side = "Buy"
    /\ sim.before.pending_orders[1].price = 1
    /\ Bar(bt.df, warmup_period).low = 1
    /\ ctx.pending_orders = <<>>
    /\ Len(ctx.trades) = Len(sim.before.trades) + 1

(***************************************************************************)
(* The edges of the state machine, checked under Spec.                     *)
(***************************************************************************)
\* the state changes the claim lists
ListedEdges ==
    {<<PENDING_ENTRY, PLACED_ENTRY>>, <<PLACED_ENTRY, FILLED_WAIT>>,
     <<PLACED_ENTRY, PENDING_ENTRY>>, <<FILLED_WAIT, PLACED_EXIT>>,
     <<FILLED_WAIT, PENDING_ENTRY>>, <<PLACED_EXIT, FILLED_WAIT>>,
     <<PLACED_EXIT, COMPLETED>>, <<PLACED_EXIT, PENDING_ENTRY>>}

\* C34: a call of execute_cycle that changes the state takes one of the
\* listed edges, PLACED_EXIT -> PENDING_ENTRY only when looping; the state
\* it returns is the state it leaves, and no call leaves COMPLETED
C34_OnlyListedEdges ==
    last.called =>
       /\ last.returned = ex.state
       /\ ex.state # last.pre.state =>
             /\ <<last.pre.state, ex.state>> \in ListedEdges
             /\ (last.pre.state = PLACED_EXIT /\ ex.state = PENDING_ENTRY)
                   => last.pre.loop_trade
       /\ last.pre.state = COMPLETED => ex.state = COMPLETED

\* an entry order was found Filled and the call stopped at FILLED_WAIT,
\* placing no exit order
C34_Witness ==
    /\ last.called
    /\ last.pre.state = PLACED_ENTRY
    /\ ~last.in_open
    /\ last.order_data.status = "Filled"
    /\ ex.state = FILLED_WAIT
    /\ last.calls = <<>>

(***************************************************************************)
(* Sells against a long and reached orders that cannot execute, checked    *)
(* under SpecSim.                                                          *)
(***************************************************************************)
\* the net PnL of the whole position held before the last call, closed at
\* exit_price
FullPnl(exit_price) ==
    (exit_price * sim.before.position.qty - sim.before.position.entry_notional) * Unit
    - (sim.before.position.qty * exit_price) * sim.before.fee_rate

\* the last call was an update_state with a candle
Advanced == sim.op = "update_state" /\ sim.candle # NoCandle

\* the resting orders the candle of the last update_state reached
Reached == {k \in 1..Len(sim.before.pending_orders) :
               ~Untouched(sim.before.pending_orders[k])}

\* C35: a sell that executes against a long, at once or as a reached resting
\* sell, closes the whole position whatever its own quantity: the position
\* is absent afterwards, the Close record carries the PnL of the position's
\* full quantity, the balance gets margin + that PnL, and no position is
\* ever short
C35_SellClosesWholeLong ==
    /\ ctx.position.side \in {"None", "Buy"}
    /\ (sim.op = "sell" /\ sim.returned = "BT_ID") =>
          /\ sim.before.position.side = "Buy"
          /\ ctx.position = NoPosition
          /\ Len(NewTrades) = 1
          /\ NewTrades[1].type = "Close"
          /\ NewTrades[1].pnl = FullPnl(ExecPrice(sim.before, sim.price))
          /\ ctx.balance = sim.before.balance + sim.before.position.margin_used
                           + FullPnl(ExecPrice(sim.before, sim.price))
    /\ (/\ Advanced
        /\ sim.before.position.side = "Buy"
        /\ Reached # {}
        /\ \A k \in Reached : sim.before.pending_orders[k].side = "Sell") =>
          LET first == CHOOSE k \in Reached : \A j \in Reached : k <= j
          IN /\ ctx.position = NoPosition
             /\ Len(NewTrades) = 1
             /\ NewTrades[1].type = "Close"
             /\ NewTrades[1].price = sim.before.pending_orders[first].price
             /\ NewTrades[1].pnl = FullPnl(sim.before.pending_orders[first].price)

\* a sell of 1 closed a long of 2
C35_Witness ==
    /\ sim.op = "sell"
    /\ sim.returned = "BT_ID"
    /\ sim.qty = 1
    /\ sim.before.position.qty = 2
    /\ ctx.position = NoPosition

\* the cost of a resting order at its limit price, before the last call
RestingCost(order) ==
    (order.qty * order.price * Unit) \div sim.before.leverage
    + (order.qty * order.price) * sim.before.fee_rate

\* C36: an update_state with a candle takes every reached order out of the
\* book and adds none, so none is tried again on a later bar; when each
\* reached order is a sell with no long open or a buy that costs more than
\* the balance, the step records no trade and leaves balance and position
\* as they were
C36_ReachedOrderDroppedOnFailure ==
    Advanced =>
       /\ \A k \in Reached : Count(ctx.pending_orders, sim.before.pending_orders[k]) = 0
       /\ Len(ctx.pending_orders) = Len(sim.before.pending_orders) - Cardinality(Reached)
       /\ (\A k \in Reached :
              \/ /\ sim.before.pending_orders[k].side = "Sell"
                 /\ sim.before.position.side # "Buy"
              \/ /\ sim.before.pending_orders[k].side = "Buy"
                 /\ RestingCost(sim.before.pending_orders[k]) > sim.before.balance)
          => /\ NewTrades = <<>>
             /\ ctx.balance = sim.before.balance
             /\ ctx.position = sim.before.position

\* a resting buy that costs more than the balance was reached and left the
\* book without a trade record
C36_Witness ==
    /\ Advanced
    /\ Len(sim.before.pending_orders) = 1
    /\ sim.before.pending_orders[1].side = "Buy"
    /\ Reached = {1}
    /\ RestingCost(sim.before.pending_orders[1]) > sim.before.balance
    /\ ctx.pending_orders = <<>>
    /\ NewTrades = <<>>

(***************************************************************************)
(* The report of a run, checked under SpecBacktest.                        *)
(***************************************************************************)
\* C31: the report of a run over a series that is not empty states the
\* balance the engine was constructed with as initial_balance, the context's
\* balance as final_balance, (final - initial) / initial * 100 of those two
\* as roi, and the length of the trade log as total_trades
C31_ReportStatesRealFigures ==
    bt.report.kind = "report" =>
       /\ bt.report.initial_balance = bt.initial_balance * Unit
       /\ bt.report.final_balance = ctx.balance
       /\ bt.report.roi.num * (bt.initial_balance * Unit)
             = (ctx.balance - bt.initial_balance * Unit) * 100 * bt.report.roi.den
       /\ bt.report.total_trades = Len(ctx.trades)

(***************************************************************************)
(* load_from_disk on any start file, checked under SpecLoad.               *)
(***************************************************************************)
\* C37: load_from_disk ends by returning: None, with the executor list as
\* it was, for a missing file, an unreadable one and a list holding a record
\* without 'state' or 'active_order_id'; the dict, with the list as it was,
\* for a single-strategy dict; and only a list whose records all pass
\* from_dict replaces the executors, record by record
C37_LoadAllOrNothing ==
    io.op = "load" =>
       /\ io.status \in {"None", "dict", "list"}
       /\ (\/ file.kind \in {"absent", "torn"}
           \/ file.kind = "list" /\ \E i \in 1..Len(file.list) :
                 {"state", "active_order_id"} \ DOMAIN file.list[i] # {})
          => /\ io.status = "None"
             /\ io.returned = ReturnedNone
             /\ executors = io.before
       /\ file.kind = "dict" =>
             /\ io.status = "dict"
             /\ io.returned.position = file.dict.position
             /\ io.returned.aux = file.dict.aux
             /\ executors = io.before
       /\ executors # io.before =>
             /\ file.kind = "list"
             /\ io.status = "list"
             /\ Len(executors) = Len(file.list)
             /\ \A i \in 1..Len(file.list) :
                   /\ RequiredKeys \subseteq DOMAIN file.list[i]
                   /\ executors[i].target_entry = file.list[i].target_entry
                   /\ executors[i].active_order_id = file.list[i].active_order_id
                   /\ file.list[i].state \in ExecutorState =>
                         executors[i].state = file.list[i].state

\* a list whose second record lacks a key was loaded over a manager that had
\* an executor: None came back and the executor is still the only one
C37_Witness ==
    /\ io.op = "load"
    /\ file.kind = "list"
    /\ Len(file.list) = 2
    /\ ~KeyErrorIn(file.list[1])
    /\ KeyErrorIn(file.list[2])
    /\ Len(io.before) = 1
    /\ executors = io.before
    /\ io.status = "None"

(***************************************************************************)
(* The earlier manager, src/manager.py: its PositionExecutor confirms an   *)
(* order by seeing it in the open-order set and takes a confirmed order    *)
(* that has left the set as filled; abort_entry and stop_all_entries stop  *)
(* new entries. The client is any object: it may or may not have a         *)
(* cancel_order method (the Client of src/client.py has none), and its     *)
(* place_limit_order raises, returns an order id or returns None.          *)
(***************************************************************************)
\* the trade plan given to add_trade, with the manager's offset on both
\* sides
LegacyPlan == [target_entry |-> 3, target_exit |-> 4, qty |-> 1, maker_offset |-> 1]
\* the prices a tick reads: one below the entry target, one above the exit
\* target
LegacyPrices == {2, 5}

\* how client.place_limit_order ends
PlaceAnswers == {"raises", "id", "None"}
\* how client.cancel_order ends, where the client has the method
CancelAnswers == {"cancelled", "raised"}

\* no place_limit_order call was made
NotPlaced ==
    [side |-> "None", qty |-> 0, price |-> 0, reduce_only |-> FALSE,
     post_only |-> FALSE, answer |-> "none"]

\* an abort_entry that also gives up an open position
abort_entry_StopsAll(self) ==
    [self EXCEPT !.stop_requested = TRUE, !.state = COMPLETED]

\* PositionExecutor.abort_entry of src/manager.py: the executor after the
\* call, whatever became of the cancellation
abort_entry(self) ==
    IF self.state = PENDING_ENTRY
    THEN [self EXCEPT !.stop_requested = TRUE, !.state = COMPLETED]
    ELSE IF self.state = PLACED_ENTRY /\ self.active_order_id # None
    THEN [self EXCEPT !.stop_requested = TRUE, !.state = COMPLETED]
    ELSE [self EXCEPT !.stop_requested = TRUE]

\* what abort_entry does about the executor's buy order: nothing where it
\* has none to cancel, a logged warning where the client has no cancel_order,
\* else the call of cancel_order, whose exception is logged and dropped
CancelCall(self, client_has_cancel_order, answer) ==
    IF ~(self.state = PLACED_ENTRY /\ self.active_order_id # None) THEN "none"
    ELSE IF ~client_has_cancel_order THEN "no_method"
    ELSE answer

\* PositionExecutor.execute_cycle of src/manager.py from PHASE A on: the
\* executor after the call, the state returned and the order submitted;
\* answer is how place_limit_order ends and id the order id it would return
CyclePhases(self, current_price, open_order_ids, answer, id) ==
    CASE self.state = PENDING_ENTRY ->
            IF self.stop_requested
            THEN [self |-> self, returned |-> COMPLETED, placed |-> NotPlaced]
            ELSE LET limit_price == IF current_price < self.target_entry
                                    THEN current_price - self.maker_offset_buy
                                    ELSE self.target_entry
                     after == IF answer = "raises" THEN self
                              ELSE [self EXCEPT
                                      !.active_order_id = IF answer = "id" THEN id ELSE None,
                                      !.state = PLACED_ENTRY,
                                      !.is_order_confirmed_active = FALSE]
                 IN [self |-> after, returned |-> after.state,
                     placed |-> [side |-> "Buy", qty |-> self.qty, price |-> limit_price,
                                 reduce_only |-> FALSE, post_only |-> TRUE,
                                 answer |-> answer]]
      [] self.state = PLACED_ENTRY ->
            LET after == IF self.active_order_id \in open_order_ids
                         THEN [self EXCEPT !.is_order_confirmed_active = TRUE]
                         ELSE IF self.is_order_confirmed_active
                         THEN [self EXCEPT !.entry_fill_price = current_price,
                                           !.active_order_id = None,
                                           !.state = FILLED_WAIT]
                         ELSE [self EXCEPT !.state = PENDING_ENTRY,
                                           !.active_order_id = None]
            IN [self |-> after, returned |-> after.state, placed |-> NotPlaced]
      [] self.state = FILLED_WAIT ->
            LET limit_price == IF current_price > self.target_exit
                               THEN current_price + self.maker_offset_sell
                               ELSE self.target_exit
                after == IF answer = "raises" THEN self
                         ELSE [self EXCEPT
                                 !.active_order_id = IF answer = "id" THEN id ELSE None,
                                 !.state = PLACED_EXIT,
                                 !.is_order_confirmed_active = FALSE]
            IN [self |-> after, returned |-> after.state,
                placed |-> [side |-> "Sell", qty |-> self.qty, price |-> limit_price,
                            reduce_only |-> TRUE, post_only |-> TRUE,
                            answer |-> answer]]
      [] self.state = PLACED_EXIT ->
            LET after == IF self.active_order_id \in open_order_ids
                         THEN [self EXCEPT !.is_order_confirmed_active = TRUE]
                         ELSE IF self.is_order_confirmed_active
                         THEN IF self.loop_trade /\ ~self.stop_requested
                              THEN [self EXCEPT !.state = PENDING_ENTRY,
                                                !.active_order_id = None,
                                                !.is_order_confirmed_active = FALSE,
                                                !.entry_fill_price = 0,
                                                !.exit_fill_price = 0]
                              ELSE [self EXCEPT !.exit_fill_price = current_price,
                                                !.state = COMPLETED]
                         ELSE [self EXCEPT !.state = FILLED_WAIT,
                                           !.active_order_id = None]
            IN [self |-> after, returned |-> after.state, placed |-> NotPlaced]
      [] OTHER -> [self |-> self, returned |-> self.state, placed |-> NotPlaced]

\* a cycle that takes no notice of stop_requested
legacy_execute_cycle_IgnoresStop(self, current_price, open_order_ids, answer, id) ==
    LET r == CyclePhases([self EXCEPT !.stop_requested = FALSE],
                         current_price, open_order_ids, answer, id)
    IN [r EXCEPT !.self = [r.self EXCEPT !.stop_requested = self.stop_requested]]

\* PositionExecutor.execute_cycle of src/manager.py
legacy_execute_cycle(self, current_price, open_order_ids, answer, id) ==
    IF self.stop_requested /\ self.state = PENDING_ENTRY
    THEN [self |-> self, returned |-> COMPLETED, placed |-> NotPlaced]
    ELSE CyclePhases(self, current_price, open_order_ids, answer, id)

\* the cycles of one tick from executor i on, in list order, on the same
\* price and open-order set; the result holds what each cycle did and the
\* next order id
RECURSIVE LegacyCycles(_, _, _, _, _, _, _)
LegacyCycles(exs, i, current_price, open_order_ids, answers, id, cycled) ==
    IF i > Len(exs)
    THEN [cycled |-> cycled, nextId |-> id]
    ELSE LET r == legacy_execute_cycle(exs[i], current_price, open_order_ids,
                                       answers[i], id)
         IN LegacyCycles(exs, i + 1, current_price, open_order_ids, answers,
                         IF r.placed.answer = "id" THEN id + 1 ELSE id,
                         Append(cycled, r))

\* the executors process_tick keeps: those whose cycle did not return
\* COMPLETED
LegacyActive(cycled) ==
    LET kept == SelectSeq(cycled, LAMBDA r : r.returned # COMPLETED)
    IN [i \in 1..Len(kept) |-> kept[i].self]

\* the ids of the orders the executors hold
LegacyHeldIds(exs) ==
    {exs[i].active_order_id : i \in {j \in 1..Len(exs) : exs[j].active_order_id # None}}

\* the executors whose next cycle submits an order
Submitting(exs) ==
    {i \in 1..Len(exs) : exs[i].state \in {PENDING_ENTRY, FILLED_WAIT}}

\* how the place_limit_order calls of one tick end: one answer for each
\* executor that submits
TickAnswers(exs) ==
    {answers \in [1..Len(exs) -> PlaceAnswers] :
        \A i \in 1..Len(exs) : i \notin Submitting(exs) => answers[i] = "id"}

\* how the cancel_order calls of one stop_all_entries end: one answer for
\* each executor whose order the client is asked to cancel
StopAnswers(exs, client_has_cancel_order) ==
    {answers \in [1..Len(exs) -> CancelAnswers] :
        \A i \in 1..Len(exs) :
           CancelCall(exs[i], client_has_cancel_order, "cancelled") # "cancelled"
           => answers[i] = "cancelled"}

\* TradeManager.add_trade of src/manager.py
legacy_add_trade ==
    /\ Len(legacy.executors) < MaxExecutors
    /\ \E loop_trade \in BOOLEAN :
          legacy' = [legacy EXCEPT
                       !.executors = Append(@, NewLegacyExecutor(LegacyPlan.target_entry,
                                                LegacyPlan.target_exit, LegacyPlan.qty,
                                                LegacyPlan.maker_offset,
                                                LegacyPlan.maker_offset, loop_trade)),
                       !.op = "add_trade", !.status = "none", !.before = legacy.executors,
                       !.cancels = <<>>, !.open = {}, !.cycled = <<>>]
    /\ UNCHANGED <<ex, nextId, last, managerVars, persistVars, simVars>>

\* TradeManager.stop_all_entries of src/manager.py: abort_entry on every
\* executor, in list order
stop_all_entries ==
    /\ \E answers \in StopAnswers(legacy.executors, legacy.client_has_cancel_order) :
          legacy' = [legacy EXCEPT
                       !.executors = [i \in 1..Len(legacy.executors) |->
                                        abort_entry(legacy.executors[i])],
                       !.op = "stop_all_entries", !.status = "none",
                       !.before = legacy.executors,
                       !.cancels = [i \in 1..Len(legacy.executors) |->
                                      CancelCall(legacy.executors[i],
                                                 legacy.client_has_cancel_order,
                                                 answers[i])],
                       !.open = {}, !.cycled = <<>>]
    /\ UNCHANGED <<ex, nextId, last, managerVars, persistVars, simVars>>

\* TradeManager.process_tick of src/manager.py: nothing without executors;
\* a fetch that raises ends the tick in the except clause; else every
\* executor's cycle runs and the executors that returned COMPLETED are left
\* out of the list
legacy_process_tick ==
    /\ legacy.executors # <<>>
    /\ legacy.nextId + Cardinality(Submitting(legacy.executors)) - 1 <= MaxOrders
    /\ \/ legacy' = [legacy EXCEPT
                       !.op = "process_tick", !.status = "fetch_raised",
                       !.before = legacy.executors,
                       !.cancels = <<>>, !.open = {}, !.cycled = <<>>]
       \/ \E current_price \in LegacyPrices,
             open_order_ids \in SUBSET LegacyHeldIds(legacy.executors),
             answers \in TickAnswers(legacy.executors) :
             LET r == LegacyCycles(legacy.executors, 1, current_price, open_order_ids,
                                   answers, legacy.nextId, <<>>)
             IN legacy' = [legacy EXCEPT
                             !.executors = LegacyActive(r.cycled),
                             !.nextId = r.nextId,
                             !.op = "process_tick", !.status = "ran",
                             !.before = legacy.executors,
                             !.cancels = <<>>, !.open = open_order_ids,
                             !.cycled = r.cycled]
    /\ UNCHANGED <<ex, nextId, last, managerVars, persistVars, simVars>>

\* a TradeManager of src/manager.py on some client
InitLegacy ==
    /\ manager = NewManager(0, 0)
    /\ executors = <<>>
    /\ tick = NoTick
    /\ nextId = 1
    /\ ex = NewExecutor(2, 3, 2, 0, 0, FALSE)
    /\ last = NoCallRecord(ex)
    /\ file = NoFile
    /\ pc = "calls"
    /\ io = NoIo
    /\ NoSimulation
    /\ \E has \in BOOLEAN : legacy = [NoLegacy EXCEPT !.client_has_cancel_order = has]

NextLegacy ==
    \/ legacy_add_trade
    \/ stop_all_entries
    \/ legacy_process_tick

SpecLegacy == InitLegacy /\ [][NextLegacy]_vars

(***************************************************************************)
(* Stopping entries, checked under SpecLegacy.                             *)
(***************************************************************************)
\* C32: after stop_all_entries every executor that was in PLACED_ENTRY with
\* an order id is COMPLETED and its order was cancelled at the exchange
C32_StoppedEntryOrdersCancelled ==
    legacy.op = "stop_all_entries" =>
       \A i \in 1..Len(legacy.before) :
          (legacy.before[i].state = PLACED_ENTRY /\ legacy.before[i].active_order_id # None)
          => /\ legacy.executors[i].state = COMPLETED
             /\ legacy.cancels[i] = "cancelled"

\* the executors of the last call that had stop_requested set before it
Stopped == {i \in 1..Len(legacy.before) : legacy.before[i].stop_requested}

\* C33: abort_entry leaves an executor in FILLED_WAIT or PLACED_EXIT as it
\* was but for stop_requested, and calls no cancellation; and a stopped
\* executor's later cycles are those of its exit: from FILLED_WAIT it submits
\* the reduce-only Sell and, given an answer, is in PLACED_EXIT; in
\* PLACED_EXIT it waits while the order is open and goes back to FILLED_WAIT
\* when an unconfirmed order is gone; the manager keeps it in each case
C33_AbortLeavesOpenPositions ==
    /\ legacy.op = "stop_all_entries" =>
          \A i \in 1..Len(legacy.before) :
             legacy.before[i].state \in {FILLED_WAIT, PLACED_EXIT} =>
                /\ legacy.executors[i] = [legacy.before[i] EXCEPT !.stop_requested = TRUE]
                /\ legacy.cancels[i] = "none"
    /\ (legacy.op = "process_tick" /\ legacy.status = "ran") =>
          \A i \in Stopped :
             /\ legacy.before[i].state = FILLED_WAIT =>
                   /\ legacy.cycled[i].placed.side = "Sell"
                   /\ legacy.cycled[i].placed.reduce_only
                   /\ legacy.cycled[i].placed.answer # "raises" =>
                         legacy.cycled[i].self.state = PLACED_EXIT
                   /\ legacy.cycled[i].placed.answer = "raises" =>
                         legacy.cycled[i].self = legacy.before[i]
                   /\ legacy.cycled[i].returned # COMPLETED
             /\ (/\ legacy.before[i].state = PLACED_EXIT
                 /\ legacy.before[i].active_order_id \in legacy.open) =>
                   /\ legacy.cycled[i].self =
                         [legacy.before[i] EXCEPT !.is_order_confirmed_active = TRUE]
                   /\ legacy.cycled[i].returned = PLACED_EXIT
             /\ (/\ legacy.before[i].state = PLACED_EXIT
                 /\ legacy.before[i].active_order_id \notin legacy.open
                 /\ ~legacy.before[i].is_order_confirmed_active) =>
                   /\ legacy.cycled[i].self.state = FILLED_WAIT
                   /\ legacy.cycled[i].returned = FILLED_WAIT

\* an executor stopped with its position open has gone on to place its exit
C33_Witness ==
    /\ legacy.op = "process_tick"
    /\ legacy.status = "ran"
    /\ \E i \in Stopped :
          /\ legacy.before[i].state = FILLED_WAIT
          /\ legacy.cycled[i].self.state = PLACED_EXIT
          /\ legacy.cycled[i].self.active_order_id # None
          /\ legacy.cycled[i].self \in {legacy.executors[j] : j \in 1..Len(legacy.executors)}

\* C38: abort_entry sets stop_requested and no cycle clears it; an executor
\* with stop_requested set submits no Buy in any cycle, and when
\* its confirmed exit order has left the open-order set it ends COMPLETED,
\* looping or not
C38_NoBuyAfterAbort ==
    /\ legacy.op = "stop_all_entries" =>
          \A i \in 1..Len(legacy.executors) : legacy.executors[i].stop_requested
    /\ (legacy.op = "process_tick" /\ legacy.status = "ran") =>
          \A i \in Stopped :
             /\ legacy.cycled[i].placed.side # "Buy"
             /\ legacy.cycled[i].self.stop_requested
             /\ (/\ legacy.before[i].state = PLACED_EXIT
                 /\ legacy.before[i].is_order_confirmed_active
                 /\ legacy.before[i].active_order_id \notin legacy.open) =>
                   /\ legacy.cycled[i].self.state = COMPLETED
                   /\ legacy.cycled[i].returned = COMPLETED

\* a looping executor stopped with its position open has seen its exit
\* order confirmed and gone
C38_Witness ==
    /\ legacy.op = "process_tick"
    /\ legacy.status = "ran"
    /\ \E i \in Stopped :
          /\ legacy.before[i].loop_trade
          /\ legacy.before[i].state = PLACED_EXIT
          /\ legacy.before[i].is_order_confirmed_active
          /\ legacy.before[i].active_order_id \notin legacy.open
          /\ legacy.cycled[i].self.state = COMPLETED

====
